---- MODULE Spec2Model ----
(***************************************************************************)
(* A model of the Strands documentation scraper (src/scraper/main.py):     *)
(* the crawl of StrandsDocsScraper (startup, page renders, extraction of   *)
(* documents, immediate indexing) and its indexing protocol                *)
(* (setup_elasticsearch, index_documents) against a search index that can  *)
(* fail, and the extractors that cut a rendered page into sections.        *)
(* Titles, ids and tag names are sequences of characters, URLs sequences   *)
(* of tokens, texts of any length sequences of runs of one character; a    *)
(* rendered page is the sibling elements of its content area and the links *)
(* of its navigation.                                                      *)
(***************************************************************************)
EXTENDS Integers, Sequences, FiniteSets, TLC

(***************************************************************************)
(* Program constants.                                                      *)
(***************************************************************************)
\* stop_after_attempt(3) of setup_elasticsearch
SetupMaxAttempts == 3
\* stop_after_attempt(3) of index_documents
IndexMaxAttempts == 3
\* for _ in range(30): the readiness probe loop of setup_elasticsearch
PingTries == 30
\* bulk(..., chunk_size=50)
ChunkSize == 50
\* len(section_data['content']) > 100
MinContentLen == 100

\* len(content) > 50: the least content of a heading-based section
MinHeadingContent == 50
\* len(text) > 200: the least text of an additional content block
MinBlockLen == 200
\* s['content'][:100]: the prefix two contents are compared by
PrefixLen == 100
\* while current and content_length < 5000
MaxNavContent == 5000
\* len(content) > 100: the least content of a navigation-based section
MinNavContent == 100
\* len(code_text) > 10: the least text of a code block
MinCodeLen == 10
\* len(heading_text) < 2: a heading text too short to head a section
MinHeadingLen == 2
\* len(text) > 1: the least text of a navigation link
MinLinkLen == 1

(***************************************************************************)
(* Bounds of the model.                                                    *)
(***************************************************************************)
\* longest navigation list a rendered main page carries
MaxNav == 2
\* most failures the Index injects into bulk submissions during one run
MaxFaults == 3
\* most index_documents calls made directly on a set-up scraper
MaxCalls == 1
\* longest batch of such a call
MaxBatch == 2

(***************************************************************************)
(* Strings.                                                                *)
(***************************************************************************)
\* Python's `sub in s` on sequences: sub is a contiguous run of s
Contains(s, sub) ==
    \E i \in 0..(Len(s) - Len(sub)) :
        \A j \in 1..Len(sub) : s[i + j] = sub[j]

\* the lower-case letter of each upper-case letter.  The characters of a
\* text are those a string of this module can hold, U+0000 to U+00FF: the
\* letters that str.lower() changes are A to Z and U+00C0 to U+00DE without
\* the multiplication sign U+00D7
UpperToLower ==
    LET upper == <<"A", "B", "C", "D", "E", "F", "G", "H", "I", "J", "K", "L", "M",
                   "N", "O", "P", "Q", "R", "S", "T", "U", "V", "W", "X", "Y", "Z",
                   "À", "Á", "Â", "Ã", "Ä", "Å", "Æ", "Ç", "È", "É", "Ê", "Ë", "Ì",
                   "Í", "Î", "Ï", "Ð", "Ñ", "Ò", "Ó", "Ô", "Õ", "Ö", "Ø", "Ù", "Ú",
                   "Û", "Ü", "Ý", "Þ">>
        lower == <<"a", "b", "c", "d", "e", "f", "g", "h", "i", "j", "k", "l", "m",
                   "n", "o", "p", "q", "r", "s", "t", "u", "v", "w", "x", "y", "z",
                   "à", "á", "â", "ã", "ä", "å", "æ", "ç", "è", "é", "ê", "ë", "ì",
                   "í", "î", "ï", "ð", "ñ", "ò", "ó", "ô", "õ", "ö", "ø", "ù", "ú",
                   "û", "ü", "ý", "þ">>
    IN [c \in { upper[i] : i \in DOMAIN upper } |->
           lower[CHOOSE i \in DOMAIN upper : upper[i] = c]]

\* str.lower() on one character
LowerChar(c) == IF c \in DOMAIN UpperToLower THEN UpperToLower[c] ELSE c

\* str.lower()
Lower(s) == [i \in 1..Len(s) |-> LowerChar(s[i])]

\* any(skip_word in title.lower() for skip_word in ['0.', '1.'])
IsVersionTitle(title) ==
    \/ Contains(Lower(title), <<"0", ".">>)
    \/ Contains(Lower(title), <<"1", ".">>)

(***************************************************************************)
(* Texts of any length, run-length encoded: a text is a sequence of runs,  *)
(* a run is a character and the number of times it is repeated, and no two *)
(* adjacent runs have the same character.                                  *)
(***************************************************************************)
Run(c, n) == [c |-> c, n |-> n]

\* a text of n letters
Text(n) == IF n = 0 THEN <<>> ELSE <<Run("a", n)>>

\* len(s)
RECURSIVE StrLen(_)
StrLen(s) == IF s = <<>> THEN 0 ELSE Head(s).n + StrLen(Tail(s))

\* a + b
StrCat(a, b) ==
    IF a = <<>> THEN b
    ELSE IF b = <<>> THEN a
    ELSE IF a[Len(a)].c = b[1].c
         THEN SubSeq(a, 1, Len(a) - 1)
                  \o <<Run(b[1].c, a[Len(a)].n + b[1].n)>> \o Tail(b)
         ELSE a \o b

\* the characters str.strip() removes, those for which str.isspace() holds:
\* space, \n, \t, \r, form feed, and U+000B (vertical tab), U+001C, U+001D,
\* U+001E, U+001F (separators), U+0085 (next line), U+00A0 (no-break space)
IsSpace(c) ==
    c \in {" ", "\n", "\t", "\r", "\f", "", "", "", "", "", "", " "}

RECURSIVE StrLStrip(_)
StrLStrip(s) ==
    IF s # <<>> /\ IsSpace(Head(s).c) THEN StrLStrip(Tail(s)) ELSE s

RECURSIVE StrRStrip(_)
StrRStrip(s) ==
    IF s # <<>> /\ IsSpace(s[Len(s)].c)
    THEN StrRStrip(SubSeq(s, 1, Len(s) - 1))
    ELSE s

\* s.strip()
StrStrip(s) == StrRStrip(StrLStrip(s))

\* s[:n]
RECURSIVE StrPrefix(_, _)
StrPrefix(s, n) ==
    IF s = <<>> \/ n <= 0 THEN <<>>
    ELSE IF Head(s).n >= n THEN <<Run(Head(s).c, n)>>
    ELSE <<Head(s)>> \o StrPrefix(Tail(s), n - Head(s).n)

\* sep.join(parts)
RECURSIVE StrJoin(_, _)
StrJoin(sep, parts) ==
    IF parts = <<>> THEN <<>>
    ELSE IF Len(parts) = 1 THEN Head(parts)
    ELSE StrCat(StrCat(Head(parts), sep), StrJoin(sep, Tail(parts)))

\* the text of a sequence of characters
RECURSIVE ToText(_)
ToText(chars) ==
    IF chars = <<>> THEN <<>>
    ELSE StrCat(<<Run(Head(chars), 1)>>, ToText(Tail(chars)))

\* the characters of a text, one by one
RECURSIVE Chars(_)
Chars(s) ==
    IF s = <<>> THEN <<>>
    ELSE [i \in 1..Head(s).n |-> Head(s).c] \o Chars(Tail(s))

\* s.replace(' ', '-') on a sequence of characters
Hyphenate(s) == [i \in 1..Len(s) |-> IF s[i] = " " THEN "-" ELSE s[i]]

\* text.lower().replace(' ', '-')
Slug(text) == Hyphenate(Lower(text))

(***************************************************************************)
(* URLs, as sequences of tokens.                                           *)
(***************************************************************************)
\* DOCS_BASE_URL default, after rstrip('/')
BaseUrl == <<"https://", "strandsagents.com", "/latest", "/documentation/docs">>
\* the documentation's home link: the base URL with its trailing slash
UrlHome == <<"https://", "strandsagents.com", "/latest", "/documentation/docs/">>
UrlGuide == <<"https://", "strandsagents.com", "/latest", "/documentation/docs/", "guide/">>
UrlApi == <<"https://", "strandsagents.com", "/latest", "/documentation/docs/", "api/">>

\* href.startswith('/'): the first part of the href is one of the parts that
\* begin with a slash
StartsWithSlash(href) ==
    /\ href # <<>>
    /\ href[1] \in {"/latest", "/documentation/docs/", "/documentation/docs", "/",
                    "/strands-agents"}

\* href and 'strandsagents.com' in href and '/documentation/docs/' in href
IsDocsHref(href) ==
    /\ href # <<>>
    /\ Contains(href, <<"strandsagents.com">>)
    /\ Contains(href, <<"/documentation/docs/">>)

\* if href.startswith('/'): href = f"https://strandsagents.com{href}"
AbsoluteHref(href) ==
    IF StartsWithSlash(href) THEN <<"https://", "strandsagents.com">> \o href ELSE href

TitleGuide == <<"G", "u", "i", "d", "e">>
TitleApi == <<"A", "P", "I">>
TitleVersion == <<"1", ".", "2">>

\* the navigation entries a rendered main page may carry
NavEntries ==
    { [title |-> TitleGuide, href |-> UrlGuide],
      [title |-> TitleApi, href |-> UrlGuide],
      [title |-> <<"D", "o", "c", "s">>, href |-> UrlHome],
      [title |-> TitleVersion, href |-> UrlApi],
      [title |-> TitleGuide,
       href |-> <<"/latest", "/documentation/docs/", "guide/">>],
      [title |-> TitleApi,
       href |-> <<"https://", "github.com", "/strands-agents">>],
      [title |-> TitleGuide, href |-> <<"#", "quickstart">>] }

\* all sequences over S of length at most n
SeqsUpTo(S, n) == UNION { [1..k -> S] : k \in 0..n }

NavLists == SeqsUpTo(NavEntries, MaxNav)

\* the (href, title) pairs of fetch_navigation_linked_pages, lines 619-633
UrlsToFetch(nav) ==
    { <<AbsoluteHref(nav[i].href), nav[i].title>> :
        i \in { j \in 1..Len(nav) :
                  /\ ~IsVersionTitle(nav[j].title)
                  /\ IsDocsHref(nav[j].href) } }

(***************************************************************************)
(* Section candidates and documents.                                       *)
(***************************************************************************)
\* sections extract_comprehensive_sections may return for a page: two with
\* content long enough to become documents, one whose content is too short
SecIntro ==
    [title |-> <<"I", "n", "t", "r", "o">>, content |-> Text(MinContentLen + 1),
     section |-> <<"m", "a", "i", "n">>, subsection |-> <<"o", "v", "e", "r", "v", "i", "e", "w">>,
     headers |-> <<<<"I", "n", "t", "r", "o">>>>, code_blocks |-> <<>>, id |-> <<"i", "n", "t", "r", "o">>]
SecUsage ==
    [title |-> <<"U", "s", "a", "g", "e">>, content |-> Text(MinContentLen + 1),
     section |-> <<"u", "s", "e", "r", "-", "g", "u", "i", "d", "e">>, subsection |-> <<"u", "s", "a", "g", "e">>,
     headers |-> <<<<"U", "s", "a", "g", "e">>>>, code_blocks |-> <<>>, id |-> <<"u", "s", "a", "g", "e">>]
SecNote ==
    [title |-> <<"N", "o", "t", "e">>, content |-> Text(MinContentLen),
     section |-> <<"u", "s", "e", "r", "-", "g", "u", "i", "d", "e">>, subsection |-> <<"c", "o", "n", "c", "e", "p", "t", "s">>,
     headers |-> <<<<"N", "o", "t", "e">>>>, code_blocks |-> <<>>, id |-> <<"n", "o", "t", "e">>]

\* the section lists a rendered page may give: none, one too short, one or
\* two long enough
SectionLists == { <<>>, <<SecNote>>, <<SecIntro>>, <<SecIntro, SecNote, SecUsage>> }

\* section_data['content'].strip() and len(section_data['content']) > 100
AcceptsSection(sec) ==
    /\ StrStrip(sec.content) # <<>>
    /\ StrLen(sec.content) > MinContentLen

\* " | ".join(items) on sequences of characters
RECURSIVE JoinBar(_)
JoinBar(items) ==
    IF items = <<>> THEN <<>>
    ELSE IF Len(items) = 1 THEN Head(items)
    ELSE Head(items) \o <<" ", "|", " ">> \o JoinBar(Tail(items))

\* the doc dict built from one section, lines 207-217:
\* url = f"{url}#{id}", scraped_at = now
MakeDoc(sec, url, now) ==
    [url |-> <<url, IF "id" \in DOMAIN sec THEN sec.id ELSE Slug(sec.title)>>,
     title |-> sec.title,
     content |-> sec.content,
     section |-> sec.section,
     subsection |-> sec.subsection,
     headers |-> JoinBar(sec.headers),
     code_blocks |-> StrJoin(ToText(<<" ", "|", " ">>), sec.code_blocks),
     scraped_at |-> now,
     version |-> "1.1.x"]

\* extract_sections_from_spa(html, url), lines 205-221: one doc per section
\* that passes the content check, in order
RECURSIVE extract_sections_from_spa(_, _, _)
extract_sections_from_spa(sections, url, now) ==
    IF sections = <<>> THEN <<>>
    ELSE IF AcceptsSection(Head(sections))
         THEN <<MakeDoc(Head(sections), url, now)>>
                  \o extract_sections_from_spa(Tail(sections), url, now)
         ELSE extract_sections_from_spa(Tail(sections), url, now)

\* scrape_all_sections, lines 538-546: len(doc.get('content', '').strip()) > 100
RECURSIVE FilterDocs(_)
FilterDocs(docs) ==
    IF docs = <<>> THEN <<>>
    ELSE IF StrLen(StrStrip(Head(docs).content)) > MinContentLen
         THEN <<Head(docs)>> \o FilterDocs(Tail(docs))
         ELSE FilterDocs(Tail(docs))

(***************************************************************************)
(* A rendered page, as the extractors read it: the elements of the main    *)
(* content area in document order, all siblings, and the links of the      *)
(* navigation.  An element has a tag name and a text of its own, and may   *)
(* have an id, classes and elements inside it (inner), which follow its    *)
(* own text.  A node is an element together with the run of siblings it    *)
(* stands in: next_sibling stays inside that run.                          *)
(***************************************************************************)
\* the tag names the extractors test for, each a sequence of characters
Tag ==
    [h1 |-> <<"h", "1">>,
     h2 |-> <<"h", "2">>,
     h3 |-> <<"h", "3">>,
     h4 |-> <<"h", "4">>,
     h5 |-> <<"h", "5">>,
     h6 |-> <<"h", "6">>,
     p |-> <<"p">>,
     div |-> <<"d", "i", "v">>,
     ul |-> <<"u", "l">>,
     ol |-> <<"o", "l">>,
     pre |-> <<"p", "r", "e">>,
     code |-> <<"c", "o", "d", "e">>,
     blockquote |-> <<"b", "l", "o", "c", "k", "q", "u", "o", "t", "e">>,
     article |-> <<"a", "r", "t", "i", "c", "l", "e">>,
     section |-> <<"s", "e", "c", "t", "i", "o", "n">>]

\* ['h1', 'h2', 'h3']
MajorHeadings == {Tag.h1, Tag.h2, Tag.h3}
\* ['h4', 'h5', 'h6']
MinorHeadings == {Tag.h4, Tag.h5, Tag.h6}
\* ['h1', 'h2', 'h3', 'h4', 'h5', 'h6']
AllHeadings == MajorHeadings \cup MinorHeadings
\* ['p', 'div', 'ul', 'ol', 'pre', 'code', 'blockquote']
ContentTags == {Tag.p, Tag.div, Tag.ul, Tag.ol, Tag.pre, Tag.code, Tag.blockquote}
\* ['pre', 'code']
CodeTags == {Tag.pre, Tag.code}

\* the decimal digits: the characters int() takes
DigitChars == <<"0", "1", "2", "3", "4", "5", "6", "7", "8", "9">>
\* c.isdigit(): the decimal digits and the superscript digits U+00B2, U+00B3
\* and U+00B9, for which int(c) raises ValueError
IsDigit(c) ==
    \/ \E i \in DOMAIN DigitChars : DigitChars[i] = c
    \/ c \in {"²", "³", "¹"}
\* int(c) of a decimal digit
DigitValue(c) == (CHOOSE i \in DOMAIN DigitChars : DigitChars[i] = c) - 1
\* str(n)
RECURSIVE NumStr(_)
NumStr(n) ==
    IF n < Len(DigitChars) THEN <<DigitChars[n + 1]>>
    ELSE NumStr(n \div Len(DigitChars)) \o <<DigitChars[(n % Len(DigitChars)) + 1]>>

\* the elements inside an element, in document order
Inner(e) == IF "inner" \in DOMAIN e THEN e.inner ELSE <<>>

\* elem.get_text(): the text of the element and of everything inside it
RECURSIVE GetText(_), GetTexts(_)
GetText(e) == StrCat(e.text, GetTexts(Inner(e)))
GetTexts(elems) ==
    IF elems = <<>> THEN <<>>
    ELSE StrCat(GetText(Head(elems)), GetTexts(Tail(elems)))

\* the nodes of a page in document order, as find_all and select visit them:
\* each element of the run sibs, followed by the nodes inside it
RECURSIVE Nodes(_), NodesFrom(_, _)
Nodes(sibs) == NodesFrom(sibs, 1)
NodesFrom(sibs, j) ==
    IF j > Len(sibs) THEN <<>>
    ELSE <<[sibs |-> sibs, at |-> j]>> \o Nodes(Inner(sibs[j]))
             \o NodesFrom(sibs, j + 1)

\* None, where a node is looked for and there is none
NoNode == [sibs |-> <<>>, at |-> 0]

\* the element of a node
Elem(node) == node.sibs[node.at]

\* an element text taken as it stands, with its surrounding whitespace
ElemTextRaw(e) == GetText(e)

\* elem.get_text().strip()
ElemText(e) == StrStrip(GetText(e))
\* the same, character by character
HeadingText(e) == Chars(StrStrip(GetText(e)))

\* link.get_text().strip() of a navigation link
LinkText(link) == Chars(StrStrip(ToText(link.text)))

\* the selectors of extract_navigation_sections, by number:
\* 'nav ul li a', '.sidebar ul li a', '.navigation ul li a', '.menu ul li a',
\* '[role="navigation"] ul li a'
nav_selectors == <<"nav", "sidebar", "navigation", "menu", "role">>

\* the entries one selector adds: the links it selects whose text has more
\* than one character, in document order
RECURSIVE NavOfSelector(_, _)
NavOfSelector(links, sel) ==
    IF links = <<>> THEN <<>>
    ELSE LET link == Head(links)
             text == LinkText(link)
         IN IF sel \in link.within /\ text # <<>> /\ Len(text) > MinLinkLen
            THEN <<[title |-> text, href |-> link.href]>>
                     \o NavOfSelector(Tail(links), sel)
            ELSE NavOfSelector(Tail(links), sel)

RECURSIVE NavFromSelectors(_, _)
NavFromSelectors(links, k) ==
    IF k > Len(nav_selectors) THEN <<>>
    ELSE NavOfSelector(links, nav_selectors[k]) \o NavFromSelectors(links, k + 1)

\* extract_navigation_sections(soup)
extract_navigation_sections(links) == NavFromSelectors(links, 1)

\* section_mappings of categorize_heading, in the order of the dict
section_mappings ==
    <<
      [pattern |-> <<"q", "u", "i", "c", "k", "s", "t", "a", "r", "t">>,
       section |-> <<"u", "s", "e", "r", "-", "g", "u", "i", "d", "e">>,
       subsection |-> <<"q", "u", "i", "c", "k", "s", "t", "a", "r", "t">>],
      [pattern |-> <<"c", "o", "n", "c", "e", "p", "t", "s">>,
       section |-> <<"u", "s", "e", "r", "-", "g", "u", "i", "d", "e">>,
       subsection |-> <<"c", "o", "n", "c", "e", "p", "t", "s">>],
      [pattern |-> <<"a", "g", "e", "n", "t", "s">>,
       section |-> <<"u", "s", "e", "r", "-", "g", "u", "i", "d", "e">>,
       subsection |-> <<"a", "g", "e", "n", "t", "s">>],
      [pattern |-> <<"t", "o", "o", "l", "s">>,
       section |-> <<"u", "s", "e", "r", "-", "g", "u", "i", "d", "e">>,
       subsection |-> <<"t", "o", "o", "l", "s">>],
      [pattern |-> <<"m", "o", "d", "e", "l", " ", "p", "r", "o", "v", "i", "d", "e", "r", "s">>,
       section |-> <<"u", "s", "e", "r", "-", "g", "u", "i", "d", "e">>,
       subsection |-> <<"m", "o", "d", "e", "l", "-", "p", "r", "o", "v", "i", "d", "e", "r", "s">>],
      [pattern |-> <<"s", "t", "r", "e", "a", "m", "i", "n", "g">>,
       section |-> <<"u", "s", "e", "r", "-", "g", "u", "i", "d", "e">>,
       subsection |-> <<"s", "t", "r", "e", "a", "m", "i", "n", "g">>],
      [pattern |-> <<"m", "u", "l", "t", "i", "-", "a", "g", "e", "n", "t">>,
       section |-> <<"u", "s", "e", "r", "-", "g", "u", "i", "d", "e">>,
       subsection |-> <<"m", "u", "l", "t", "i", "-", "a", "g", "e", "n", "t">>],
      [pattern |-> <<"s", "a", "f", "e", "t", "y">>,
       section |-> <<"u", "s", "e", "r", "-", "g", "u", "i", "d", "e">>,
       subsection |-> <<"s", "a", "f", "e", "t", "y">>],
      [pattern |-> <<"s", "e", "c", "u", "r", "i", "t", "y">>,
       section |-> <<"u", "s", "e", "r", "-", "g", "u", "i", "d", "e">>,
       subsection |-> <<"s", "e", "c", "u", "r", "i", "t", "y">>],
      [pattern |-> <<"o", "b", "s", "e", "r", "v", "a", "b", "i", "l", "i", "t", "y">>,
       section |-> <<"u", "s", "e", "r", "-", "g", "u", "i", "d", "e">>,
       subsection |-> <<"o", "b", "s", "e", "r", "v", "a", "b", "i", "l", "i", "t", "y">>],
      [pattern |-> <<"e", "v", "a", "l", "u", "a", "t", "i", "o", "n">>,
       section |-> <<"u", "s", "e", "r", "-", "g", "u", "i", "d", "e">>,
       subsection |-> <<"e", "v", "a", "l", "u", "a", "t", "i", "o", "n">>],
      [pattern |-> <<"d", "e", "p", "l", "o", "y">>,
       section |-> <<"u", "s", "e", "r", "-", "g", "u", "i", "d", "e">>,
       subsection |-> <<"d", "e", "p", "l", "o", "y">>],
      [pattern |-> <<"e", "x", "a", "m", "p", "l", "e", "s">>,
       section |-> <<"e", "x", "a", "m", "p", "l", "e", "s">>,
       subsection |-> <<"o", "v", "e", "r", "v", "i", "e", "w">>],
      [pattern |-> <<"a", "p", "i", " ", "r", "e", "f", "e", "r", "e", "n", "c", "e">>,
       section |-> <<"a", "p", "i", "-", "r", "e", "f", "e", "r", "e", "n", "c", "e">>,
       subsection |-> <<"o", "v", "e", "r", "v", "i", "e", "w">>],
      [pattern |-> <<"f", "e", "a", "t", "u", "r", "e", "s">>,
       section |-> <<"m", "a", "i", "n">>,
       subsection |-> <<"f", "e", "a", "t", "u", "r", "e", "s">>],
      [pattern |-> <<"n", "e", "x", "t", " ", "s", "t", "e", "p", "s">>,
       section |-> <<"m", "a", "i", "n">>,
       subsection |-> <<"n", "e", "x", "t", "-", "s", "t", "e", "p", "s">>]
    >>

\* a search of the table that gives the last entry whose keyword matches
RECURSIVE LastMapping(_, _)
LastMapping(heading_lower, k) ==
    IF k > Len(section_mappings) THEN 0
    ELSE LET later == LastMapping(heading_lower, k + 1)
         IN IF later # 0 THEN later
            ELSE IF Contains(heading_lower, section_mappings[k].pattern) THEN k
            ELSE 0

RECURSIVE FirstMapping(_, _)
FirstMapping(heading_lower, k) ==
    IF k > Len(section_mappings) THEN 0
    ELSE IF Contains(heading_lower, section_mappings[k].pattern) THEN k
    ELSE FirstMapping(heading_lower, k + 1)

\* categorize_heading(heading_text, heading_level, nav_sections): the pair
\* (section, subsection); nav_sections is not read
categorize_heading(heading_text, heading_level, nav) ==
    LET k == FirstMapping(Lower(heading_text), 1)
    IN IF k > 0
       THEN <<section_mappings[k].section, section_mappings[k].subsection>>
       ELSE IF heading_level = Tag.h1 THEN <<<<"m", "a", "i", "n">>, <<"o", "v", "e", "r", "v", "i", "e", "w">>>>
       ELSE IF heading_level = Tag.h2 THEN <<<<"u", "s", "e", "r", "-", "g", "u", "i", "d", "e">>, Slug(heading_text)>>
       ELSE <<<<"u", "s", "e", "r", "-", "g", "u", "i", "d", "e">>, <<"c", "o", "n", "c", "e", "p", "t", "s">>>>

\* a sibling walk that ends only at a heading of a higher level
RECURSIVE content_elements_lax(_, _, _)
content_elements_lax(soup, i, j) ==
    IF j > Len(soup) THEN <<>>
    ELSE IF /\ soup[j].tag \in MajorHeadings
            /\ DigitValue(soup[j].tag[2]) < DigitValue(soup[i].tag[2])
         THEN <<>>
    ELSE IF soup[j].tag \in ContentTags
         THEN <<soup[j]>> \o content_elements_lax(soup, i, j + 1)
    ELSE content_elements_lax(soup, i, j + 1)

\* the sibling walk of lines 272-287 from position j on, for the heading at
\* position i: the content elements up to the next h1-h3 of level <= its own
RECURSIVE content_elements(_, _, _)
content_elements(soup, i, j) ==
    IF j > Len(soup) THEN <<>>
    ELSE IF /\ soup[j].tag \in MajorHeadings
            /\ DigitValue(soup[j].tag[2]) <= DigitValue(soup[i].tag[2])
         THEN <<>>
    ELSE IF soup[j].tag \in ContentTags
         THEN <<soup[j]>> \o content_elements(soup, i, j + 1)
    ELSE content_elements(soup, i, j + 1)

\* lines 294-304: the stripped, non-empty texts of the collected elements
RECURSIVE content_parts(_)
content_parts(found) ==
    IF found = <<>> THEN <<>>
    ELSE IF ElemText(Head(found)) # <<>>
         THEN <<ElemText(Head(found))>> \o content_parts(Tail(found))
    ELSE content_parts(Tail(found))

\* lines 295-298: the texts of the collected pre and code elements that have
\* more than 10 characters
RECURSIVE code_blocks(_)
code_blocks(found) ==
    IF found = <<>> THEN <<>>
    ELSE IF /\ Head(found).tag \in CodeTags
            /\ StrLen(ElemText(Head(found))) > MinCodeLen
         THEN <<ElemText(Head(found))>> \o code_blocks(Tail(found))
    ELSE code_blocks(Tail(found))

\* lines 299-300: the texts of the collected h4-h6 elements
RECURSIVE sub_headers(_)
sub_headers(found) ==
    IF found = <<>> THEN <<>>
    ELSE IF /\ Head(found).tag \notin CodeTags
            /\ Head(found).tag \in MinorHeadings
         THEN <<HeadingText(Head(found))>> \o sub_headers(Tail(found))
    ELSE sub_headers(Tail(found))

\* an anchor id that also carries the tag name of the heading
HeadingIdWithTag(heading, heading_text) ==
    IF "id" \in DOMAIN heading THEN heading.id
    ELSE Slug(heading_text) \o <<"-">> \o heading.tag

\* heading.get('id', heading_text.lower().replace(' ', '-'))
HeadingId(heading, heading_text) ==
    IF "id" \in DOMAIN heading THEN heading.id ELSE Slug(heading_text)

\* lines 263-318 for the heading at position i: the sections it adds, one or none
HeadingSection(soup, i, nav) ==
    LET heading == soup[i]
        heading_text == HeadingText(heading)
        cat == categorize_heading(heading_text, heading.tag, nav)
        found == content_elements(soup, i, i + 1)
        content == StrJoin(<<Run(" ", 1)>>, content_parts(found))
    IN IF heading_text = <<>> \/ Len(heading_text) < MinHeadingLen THEN <<>>
       ELSE IF content # <<>> /\ StrLen(content) > MinHeadingContent
       THEN << [title |-> heading_text,
                content |-> content,
                section |-> cat[1],
                subsection |-> cat[2],
                headers |-> <<heading_text>> \o sub_headers(found),
                code_blocks |-> code_blocks(found),
                id |-> HeadingId(heading, heading_text)] >>
       ELSE <<>>

\* the loop of lines 262-319 over soup.find_all(['h1', 'h2', 'h3']), from
\* node i on: every h1-h3 of the page, nested ones included, with the
\* siblings of its own run
RECURSIVE HeadingSections(_, _, _)
HeadingSections(nodes, i, nav) ==
    IF i > Len(nodes) THEN <<>>
    ELSE IF Elem(nodes[i]).tag \in MajorHeadings
         THEN HeadingSection(nodes[i].sibs, nodes[i].at, nav)
                  \o HeadingSections(nodes, i + 1, nav)
    ELSE HeadingSections(nodes, i + 1, nav)

\* content_selectors of extract_additional_content_blocks
content_selectors ==
    << [kind |-> "tag", name |-> Tag.article],
       [kind |-> "class", name |-> <<"c", "o", "n", "t", "e", "n", "t">>],
       [kind |-> "class", name |-> <<"d", "o", "c", "u", "m", "e", "n", "t", "a", "t", "i", "o", "n">>],
       [kind |-> "class", name |-> <<"d", "o", "c", "s", "-", "c", "o", "n", "t", "e", "n", "t">>],
       [kind |-> "tag", name |-> Tag.section] >>

\* soup.select(selector) selects the element
Selects(selector, e) ==
    IF selector.kind = "tag" THEN e.tag = selector.name
    ELSE "class" \in DOMAIN e /\ selector.name \in e.class

\* {s['content'][:100] for s in existing_sections}
existing_content(existing_sections) ==
    { StrPrefix(existing_sections[i].content, PrefixLen) :
        i \in 1..Len(existing_sections) }

\* find(tags) over the nodes from position j on: the first node whose tag is
\* one of tags, NoNode for None
RECURSIVE FindTagged(_, _, _)
FindTagged(nodes, tags, j) ==
    IF j > Len(nodes) THEN NoNode
    ELSE IF Elem(nodes[j]).tag \in tags THEN nodes[j]
    ELSE FindTagged(nodes, tags, j + 1)

\* lines 384-397: the section appended for an additional block; the title is
\* the text of the first h1-h4 inside the element
BlockSection(element, text, n) ==
    LET title_elem == FindTagged(Nodes(Inner(element)), MajorHeadings \cup {Tag.h4}, 1)
        title == IF title_elem # NoNode
                 THEN HeadingText(Elem(title_elem))
                 ELSE <<"A", "d", "d", "i", "t", "i", "o", "n", "a", "l", " ", "D", "o", "c", "u", "m", "e", "n", "t", "a", "t", "i", "o", "n">>
    IN [title |-> title,
        content |-> text,
        section |-> <<"a", "d", "d", "i", "t", "i", "o", "n", "a", "l">>,
        subsection |-> <<"c", "o", "n", "t", "e", "n", "t">>,
        headers |-> <<title>>,
        code_blocks |-> <<>>,
        id |-> <<"a", "d", "d", "i", "t", "i", "o", "n", "a", "l", "-">> \o NumStr(n)]

\* the loops of lines 379-397, at selector k and node j: existing is the
\* set of prefixes computed before the loops, sections the growing list
RECURSIVE AddBlocks(_, _, _, _, _)
AddBlocks(nodes, existing, sections, k, j) ==
    IF k > Len(content_selectors) THEN sections
    ELSE IF j > Len(nodes) THEN AddBlocks(nodes, existing, sections, k + 1, 1)
    ELSE LET element == Elem(nodes[j])
             text == ElemText(element)
         IN IF /\ Selects(content_selectors[k], element)
               /\ StrLen(text) > MinBlockLen
               /\ StrPrefix(text, PrefixLen) \notin existing
            THEN AddBlocks(nodes, existing,
                           Append(sections, BlockSection(element, text, Len(sections))),
                           k, j + 1)
            ELSE AddBlocks(nodes, existing, sections, k, j + 1)

\* extract_additional_content_blocks(soup, existing_sections): the list after
\* the call
extract_additional_content_blocks(soup, existing_sections) ==
    AddBlocks(Nodes(soup), existing_content(existing_sections), existing_sections, 1, 1)

\* ['p', 'div', 'ul', 'ol', 'pre', 'code', 'blockquote', 'h4', 'h5', 'h6']
NavContentTags == ContentTags \cup MinorHeadings

\* soup.find(id=element_id) over the nodes from position j on: the first
\* node whose element has that id, NoNode for None
RECURSIVE FindById(_, _, _)
FindById(nodes, element_id, j) ==
    IF j > Len(nodes) THEN NoNode
    ELSE IF "id" \in DOMAIN Elem(nodes[j]) /\ Elem(nodes[j]).id = element_id
         THEN nodes[j]
    ELSE FindById(nodes, element_id, j + 1)

\* title.lower() in heading_text.lower() or heading_text.lower() in title.lower()
TextMatches(title, heading_text) ==
    \/ Contains(Lower(heading_text), Lower(title))
    \/ Contains(Lower(title), Lower(heading_text))

\* lines 437-442 over the nodes from position j on: the first h1-h6 of the
\* page, nested ones included, whose text matches the title, NoNode for None
RECURSIVE FindByText(_, _, _)
FindByText(nodes, title, j) ==
    IF j > Len(nodes) THEN NoNode
    ELSE IF /\ Elem(nodes[j]).tag \in AllHeadings
            /\ TextMatches(title, HeadingText(Elem(nodes[j])))
         THEN nodes[j]
    ELSE FindByText(nodes, title, j + 1)

\* a resolution that falls back on the first element of the content area
content_elem_or_first(soup, nav_section) ==
    LET href == nav_section.href
        nodes == Nodes(soup)
        by_id == IF href # <<>> /\ href[1] = "#"
                 THEN FindById(nodes, Tail(href), 1) ELSE NoNode
        by_text == FindByText(nodes, nav_section.title, 1)
    IN IF by_id # NoNode THEN by_id
       ELSE IF by_text # NoNode THEN by_text
       ELSE IF soup # <<>> THEN nodes[1] ELSE NoNode

\* a resolution that tries the text of the headings before the id
content_elem_text_first(soup, nav_section) ==
    LET href == nav_section.href
        nodes == Nodes(soup)
        by_text == FindByText(nodes, nav_section.title, 1)
    IN IF by_text # NoNode THEN by_text
       ELSE IF href # <<>> /\ href[1] = "#" THEN FindById(nodes, Tail(href), 1)
       ELSE NoNode

\* lines 419-444: the node of content_elem for one navigation entry, NoNode
\* for None
content_elem(soup, nav_section) ==
    LET href == nav_section.href
        nodes == Nodes(soup)
        by_id == IF href # <<>> /\ href[1] = "#"
                 THEN FindById(nodes, Tail(href), 1) ELSE NoNode
    IN IF by_id # NoNode THEN by_id ELSE FindByText(nodes, nav_section.title, 1)

\* the walk of lines 455-483 before its first step
NoWalk ==
    [content_parts |-> <<>>, content_length |-> 0, headers |-> <<>>,
     code_blocks |-> <<>>, raised |-> FALSE]

\* lines 470-480: what collecting the element cur adds to the walk
Collect(w, cur) ==
    LET text == ElemText(cur)
    IN IF cur.tag \in NavContentTags /\ text # <<>>
       THEN [w EXCEPT
               !.content_parts = Append(@, text),
               !.content_length = @ + StrLen(text),
               !.headers = IF cur.tag \in MinorHeadings THEN Append(@, Chars(text)) ELSE @,
               !.code_blocks = IF /\ cur.tag \notin MinorHeadings
                                  /\ cur.tag \in CodeTags
                                  /\ StrLen(text) > MinCodeLen
                               THEN Append(@, text) ELSE @]
       ELSE w

\* the while loop of lines 459-483 at position j, having started at position
\* start.  When the walk stands on a heading, line 464 raises IndexError for
\* a start element whose name has one character (content_elem.name[1]) and
\* ValueError for one whose second character is a digit that int() refuses
RECURSIVE NavWalk(_, _, _, _)
NavWalk(soup, start, j, w) ==
    IF j > Len(soup) \/ ~(w.content_length < MaxNavContent) THEN w
    ELSE LET cur == soup[j]
             first == soup[start]
         IN IF cur.tag \in AllHeadings
            THEN IF \/ Len(first.tag) < 2
                    \/ /\ IsDigit(first.tag[2])
                       /\ \A i \in DOMAIN DigitChars : DigitChars[i] # first.tag[2]
                 THEN [w EXCEPT !.raised = TRUE]
                 ELSE LET current_level ==
                              IF IsDigit(cur.tag[2]) THEN DigitValue(cur.tag[2]) ELSE 6
                          nav_level ==
                              IF IsDigit(first.tag[2]) THEN DigitValue(first.tag[2]) ELSE 1
                      IN IF cur # first /\ current_level <= nav_level THEN w
                         ELSE NavWalk(soup, start, j + 1, Collect(w, cur))
            ELSE NavWalk(soup, start, j + 1, Collect(w, cur))

\* lines 489-497: the section created for a navigation entry
NavSection(title, w, n) ==
    [title |-> title,
     content |-> StrJoin(<<Run(" ", 1)>>, w.content_parts),
     section |-> <<"n", "a", "v", "i", "g", "a", "t", "i", "o", "n", "-", "b", "a", "s", "e", "d">>,
     subsection |-> Slug(title),
     headers |-> <<title>> \o w.headers,
     code_blocks |-> w.code_blocks,
     id |-> <<"n", "a", "v", "-">> \o NumStr(n) \o <<"-">> \o Slug(title)]

\* the loop of lines 407-503 at entry i with the sections created so far:
\* the list returned, or the exception raised
RECURSIVE NavSections(_, _, _, _)
NavSections(soup, nav, i, created) ==
    IF i > Len(nav) THEN [raised |-> FALSE, sections |-> created]
    ELSE IF IsVersionTitle(nav[i].title) THEN NavSections(soup, nav, i + 1, created)
    ELSE LET start == content_elem(soup, nav[i])
         IN IF start = NoNode THEN NavSections(soup, nav, i + 1, created)
            ELSE LET w == NavWalk(start.sibs, start.at, start.at, NoWalk)
                     content == StrJoin(<<Run(" ", 1)>>, w.content_parts)
                 IN IF w.raised THEN [raised |-> TRUE, sections |-> created]
                    ELSE IF content # <<>> /\ StrLen(content) > MinNavContent
                    THEN NavSections(soup, nav, i + 1,
                             Append(created, NavSection(nav[i].title, w, Len(created))))
                    ELSE NavSections(soup, nav, i + 1, created)

\* extract_navigation_based_sections(soup, nav_sections)
extract_navigation_based_sections(soup, nav) == NavSections(soup, nav, 1, <<>>)

\* extract_comprehensive_sections(soup, nav_sections): the list returned, or
\* the exception raised
extract_comprehensive_sections(soup, nav) ==
    LET by_heading == HeadingSections(Nodes(soup), 1, nav)
        with_blocks == extract_additional_content_blocks(soup, by_heading)
        by_nav == extract_navigation_based_sections(soup, nav)
    IN [raised |-> by_nav.raised,
        sections |-> IF by_nav.raised THEN <<>> ELSE with_blocks \o by_nav.sections]

(***************************************************************************)
(* The Index (Elasticsearch), as the scraper's calls see it.               *)
(***************************************************************************)
\* a document left in the index by an earlier run
OldDoc == MakeDoc(SecIntro, BaseUrl, 0)

\* the index before the run: absent, empty, or holding an earlier run's document
InitialIndexes ==
    { [exists |-> FALSE, docs |-> <<>>],
      [exists |-> TRUE, docs |-> <<>>],
      [exists |-> TRUE, docs |-> <<OldDoc>>] }

\* indices.delete followed by indices.create
RecreatedIndex == [exists |-> TRUE, docs |-> <<>>]

\* one bulk action {"_index": ..., "_source": doc}: it carries no "_id"
BulkAction(doc) == [_index |-> "strands-agents-docs", _source |-> doc]

\* doc_generator(), lines 578-597: the actions of the documents that have a
\* 'url' key, in the order of the batch
RECURSIVE doc_generator(_)
doc_generator(documents) ==
    IF documents = <<>> THEN <<>>
    ELSE IF "url" \notin DOMAIN Head(documents)
         THEN doc_generator(Tail(documents))
         ELSE <<BulkAction(Head(documents))>> \o doc_generator(Tail(documents))

\* the Index executing one bulk action: with an "_id" the document of that id
\* is replaced, without one the document is stored under a fresh id
EsIndexOp(docs, action) ==
    IF "_id" \in DOMAIN action
    THEN IF \E i \in 1..Len(docs) : docs[i].url = action._id
         THEN [i \in 1..Len(docs) |->
                  IF docs[i].url = action._id THEN action._source ELSE docs[i]]
         ELSE Append(docs, action._source)
    ELSE Append(docs, action._source)

\* the Index executing the actions of a chunk whose positions are not in failing
RECURSIVE EsBulk(_, _, _, _)
EsBulk(docs, actions, k, failing) ==
    IF k > Len(actions) THEN docs
    ELSE EsBulk(IF k \in failing THEN docs ELSE EsIndexOp(docs, actions[k]),
                actions, k + 1, failing)

\* the number of chunks bulk() cuts n actions into
NumChunks(n) == (n + ChunkSize - 1) \div ChunkSize

\* the actions of chunk c (1-based)
Chunk(actions, c) ==
    SubSeq(actions, (c - 1) * ChunkSize + 1,
           IF c * ChunkSize < Len(actions) THEN c * ChunkSize ELSE Len(actions))

\* a retry policy that allows one attempt more
RetryStopOneLate(attempt, max) == attempt >= max + 1

\* tenacity's stop_after_attempt(max) after a failed attempt
RetryStop(attempt, max) == attempt >= max

\* a reconnect that runs the body of setup_elasticsearch: new client, index
\* deleted and created again
ReconnectAwaited(es) ==
    [client |-> "client", index |-> RecreatedIndex, runs |-> es.runs + 1]

\* index_documents lines 567-576: self.setup_elasticsearch() is called without
\* await from a synchronous function, so only a coroutine object is created:
\* the body of setup_elasticsearch does not run; the client, the index and
\* the count of setup bodies run are left as they are
Reconnect(es) == es

(***************************************************************************)
(* State.                                                                  *)
(***************************************************************************)
VARIABLES
    pc,            \* where main() stands: __aenter__, run, the crawl loop, the end
    spc,           \* where the running setup_elasticsearch call stands
    setup_attempt, \* attempts the running setup_elasticsearch call has started
    ping_i,        \* probes the readiness loop of the current attempt has made
    ping_answered, \* some readiness probe of this run was answered
    es_client,     \* self.es_client: "None" or "client"
    es_index,      \* the Index: whether the target index exists, and its documents
    open_pages,    \* browser pages opened and not closed
    fetches,       \* the renders of this run, in order, with what came of each
    nav_sections,  \* the navigation entries of the main page, while in use
    urls_to_fetch, \* the (url, title) pairs fetch_navigation_linked_pages built
    todo,          \* the (url, title) pairs the linked-page loop has still to visit
    documents,     \* the list scrape_all_sections accumulates and returns
    ipc,           \* where the running index_documents call stands
    idx_attempt,   \* attempts the running index_documents call has started
    batch,         \* the documents argument of the running or last index_documents call
    probe,         \* what the connectivity probe of the current attempt gave
    chunk_i,       \* the next chunk the bulk helper sends
    reconnects,    \* setup_elasticsearch bodies run inside the index_documents call
    ret,           \* how the last index_documents call ended, with the counts it logged
    faults,        \* failures the Index has injected into bulk submissions
    calls,         \* index_documents calls made by the direct-call harness
    epc,           \* where a call of extract_sections_from_spa on one page stands
    html,          \* the rendered page of that call: content elements and links
    page_sections, \* what extract_comprehensive_sections returned for the page
    page_docs,     \* what extract_sections_from_spa returned for the page
    cat_arg,       \* the arguments of a call of categorize_heading
    cat_res,       \* what that call returned
    tpc,           \* per task: where its tool call of the query server stands
    tool_call,     \* per task: the server, the tool name, the arguments and
                   \* the Context of that call
    tool_result,   \* per task: what the call returned to the protocol layer
    es_requests,   \* per task: the requests the call sent to the Index, with
                   \* their answers
    tool_log       \* what the tool calls did to the client and the Index, in
                   \* the order it happened

vars ==
    <<pc, spc, setup_attempt, ping_i, ping_answered, es_client, es_index,
      open_pages, fetches, nav_sections, urls_to_fetch, todo, documents, ipc,
      idx_attempt,
      batch, probe, chunk_i, reconnects, ret, faults, calls,
      epc, html, page_sections, page_docs, cat_arg, cat_res,
      tpc, tool_call, tool_result, es_requests, tool_log>>

setupVars == <<spc, setup_attempt, ping_i, ping_answered>>
crawlVars == <<open_pages, fetches, nav_sections, urls_to_fetch, todo, documents>>
indexVars == <<ipc, idx_attempt, batch, probe, chunk_i, reconnects, ret>>
extractVars == <<epc, html, page_sections, page_docs, cat_arg, cat_res>>
toolVars == <<tpc, tool_call, tool_result, es_requests, tool_log>>

\* no page under extraction, no categorize_heading call
ExtractIdle ==
    /\ epc = "idle"
    /\ html = [elems |-> <<>>, nav |-> <<>>]
    /\ page_sections = <<>>
    /\ page_docs = <<>>
    /\ cat_arg = <<>>
    /\ cat_res = <<>>

\* the tool calls that the event loop of a query server has in progress at
\* the same time, one task each
MaxTasks == 2
Tasks == 1..MaxTasks

\* the empty arguments dict {}
NoArguments == [k \in {} |-> <<>>]

\* `ctx: Context = None`: the tool function was called without a Context
NoContext == [given |-> FALSE, info |-> TRUE, found |-> TRUE, error |-> TRUE]

\* no tool call has reached the query server
NoCall == [server |-> "none", name |-> "none", arguments |-> NoArguments,
           ctx |-> NoContext]
NoResult == [type |-> "none"]

ToolIdle ==
    /\ tpc = [t \in Tasks |-> "idle"]
    /\ tool_call = [t \in Tasks |-> NoCall]
    /\ tool_result = [t \in Tasks |-> NoResult]
    /\ es_requests = [t \in Tasks |-> <<>>]
    /\ tool_log = <<>>

\* no index_documents call has ended yet
NoRet == [kind |-> "none", success |-> 0, failed |-> 0, attempts |-> 0]

\* StrandsDocsScraper.__init__ and the state of the Index before the run
Init ==
    /\ pc = "start"
    /\ spc = "idle"
    /\ setup_attempt = 0
    /\ ping_i = 0
    /\ ping_answered = FALSE
    /\ es_client = "None"
    /\ es_index \in InitialIndexes
    /\ open_pages = 0
    /\ fetches = <<>>
    /\ nav_sections = <<>>
    /\ urls_to_fetch = {}
    /\ todo = {}
    /\ documents = <<>>
    /\ ipc = "idle"
    /\ idx_attempt = 0
    /\ batch = <<>>
    /\ probe = "none"
    /\ chunk_i = 0
    /\ reconnects = 0
    /\ ret = NoRet
    /\ faults = 0
    /\ calls = 0
    /\ ExtractIdle
    /\ ToolIdle

(***************************************************************************)
(* Startup: __aenter__ and setup_elasticsearch.                            *)
(***************************************************************************)
\* __aenter__, lines 78-86: start Playwright, launch the browser, call
\* setup_elasticsearch (tenacity starts the first attempt)
AEnter ==
    /\ pc = "start"
    /\ pc' = "setup"
    /\ spc' = "connect"
    /\ setup_attempt' = 1
    /\ UNCHANGED <<ping_i, ping_answered, es_client, es_index, faults, calls>>
    /\ UNCHANGED crawlVars
    /\ UNCHANGED indexVars
    /\ UNCHANGED extractVars
    /\ UNCHANGED toolVars

\* line 100: self.es_client = Elasticsearch([...]); the probe loop starts
SetupConnect ==
    /\ pc = "setup" /\ spc = "connect"
    /\ es_client' = "client"
    /\ ping_i' = 0
    /\ spc' = "ping"
    /\ UNCHANGED <<pc, setup_attempt, ping_answered, es_index, faults, calls>>
    /\ UNCHANGED crawlVars
    /\ UNCHANGED indexVars
    /\ UNCHANGED extractVars
    /\ UNCHANGED toolVars

\* a probe loop without its else branch: setup goes on to the index calls
OnPingLoopEndProceeds == "proceed"

\* what the for-else of the probe loop does once range(30) is used up
OnPingLoopEnd == "raise"

\* lines 103-111: one round of the probe loop; an answered ping breaks out of
\* it, an unanswered or failing one sleeps one second; after 30 rounds the
\* else branch raises
SetupPing ==
    /\ pc = "setup" /\ spc = "ping"
    /\ IF ping_i < PingTries
       THEN \E answered \in BOOLEAN :
               IF answered
               THEN /\ spc' = "recreate"
                    /\ ping_answered' = TRUE
                    /\ ping_i' = ping_i
               ELSE /\ spc' = "ping"
                    /\ ping_i' = ping_i + 1
                    /\ UNCHANGED ping_answered
       ELSE /\ spc' = IF OnPingLoopEnd = "raise" THEN "raised" ELSE "recreate"
            /\ UNCHANGED <<ping_i, ping_answered>>
    /\ UNCHANGED <<pc, setup_attempt, es_client, es_index, faults, calls>>
    /\ UNCHANGED crawlVars
    /\ UNCHANGED indexVars
    /\ UNCHANGED extractVars
    /\ UNCHANGED toolVars

\* a setup that creates the index only when it is absent and keeps an
\* existing index with its documents
SetupCreateIfAbsent ==
    /\ pc = "setup" /\ spc = "recreate"
    /\ \E outcome \in {"ok", "exists_error", "create_error"} :
          /\ CASE outcome = "ok" ->
                    /\ es_index' = [exists |-> TRUE, docs |-> es_index.docs]
                    /\ spc' = "idle"
                    /\ pc' = "run"
                    /\ setup_attempt' = 0
                    /\ ping_i' = 0
               [] outcome = "create_error" ->
                    /\ ~es_index.exists
                    /\ spc' = "raised"
                    /\ UNCHANGED <<pc, es_index, setup_attempt, ping_i>>
               [] OTHER ->
                    /\ spc' = "raised"
                    /\ UNCHANGED <<pc, es_index, setup_attempt, ping_i>>
    /\ UNCHANGED <<ping_answered, es_client, faults, calls>>
    /\ UNCHANGED crawlVars
    /\ UNCHANGED indexVars
    /\ UNCHANGED extractVars
    /\ UNCHANGED toolVars

\* lines 134-143: delete the index if it exists, create it; each of the three
\* Index calls may fail, and the failure is logged and raised again
SetupRecreateIndex ==
    /\ pc = "setup" /\ spc = "recreate"
    /\ \E outcome \in {"ok", "exists_error", "delete_error", "create_error"} :
          /\ (outcome = "delete_error") => es_index.exists
          /\ CASE outcome = "ok" ->
                    /\ es_index' = RecreatedIndex
                    /\ spc' = "idle"
                    /\ pc' = "run"
                    /\ setup_attempt' = 0
                    /\ ping_i' = 0
               [] outcome = "create_error" ->
                    /\ es_index' = [exists |-> FALSE, docs |-> <<>>]
                    /\ spc' = "raised"
                    /\ UNCHANGED <<pc, setup_attempt, ping_i>>
               [] OTHER ->
                    /\ spc' = "raised"
                    /\ UNCHANGED <<pc, es_index, setup_attempt, ping_i>>
    /\ UNCHANGED <<ping_answered, es_client, faults, calls>>
    /\ UNCHANGED crawlVars
    /\ UNCHANGED indexVars
    /\ UNCHANGED extractVars
    /\ UNCHANGED toolVars

\* tenacity after a failed attempt of setup_elasticsearch: wait and run the
\* body again, or stop after the third attempt with RetryError, which leaves
\* __aenter__ and main()
SetupRetry ==
    /\ pc = "setup" /\ spc = "raised"
    /\ IF RetryStop(setup_attempt, SetupMaxAttempts)
       THEN /\ pc' = "startup_failed"
            /\ spc' = "idle"
            /\ UNCHANGED setup_attempt
       ELSE /\ spc' = "connect"
            /\ setup_attempt' = setup_attempt + 1
            /\ UNCHANGED pc
    /\ UNCHANGED <<ping_i, ping_answered, es_client, es_index, faults, calls>>
    /\ UNCHANGED crawlVars
    /\ UNCHANGED indexVars
    /\ UNCHANGED extractVars
    /\ UNCHANGED toolVars

(***************************************************************************)
(* index_documents.                                                        *)
(***************************************************************************)
\* the call index_documents(docs): tenacity starts the first attempt
IdxEnter(docs) ==
    /\ batch' = docs
    /\ idx_attempt' = 1
    /\ ipc' = "probe"
    /\ probe' = "none"
    /\ chunk_i' = 0
    /\ reconnects' = 0
    /\ ret' = NoRet

\* where the caller goes on when index_documents returns
OnIndexReturn(caller) ==
    CASE caller = "main_index" -> "linked_loop"
      [] caller = "linked_index" -> "linked_loop"
      [] OTHER -> "harness"

\* callers of which the first does not catch: the error leaves
\* scrape_all_sections and run()
OnIndexErrorPropagates(caller) ==
    CASE caller = "main_index" -> "crashed"
      [] caller = "linked_index" -> "linked_loop"
      [] OTHER -> "harness"

\* where the caller goes on when index_documents raises: both callers in the
\* crawl catch Exception, log and go on (lines 526-527, 653-654)
OnIndexError(caller) ==
    CASE caller = "main_index" -> "linked_loop"
      [] caller = "linked_index" -> "linked_loop"
      [] OTHER -> "harness"

\* fetches with the index outcome of the last render set
MarkIndexed(fs, how) ==
    IF fs = <<>> THEN fs
    ELSE [fs EXCEPT ![Len(fs)].indexed = how]

\* the end of an index_documents call: back in the caller; after the main
\* page the caller builds the set of linked pages (lines 530-534, 619-633)
Resume(kind) ==
    /\ pc' = (IF kind = "raised" THEN OnIndexError(pc) ELSE OnIndexReturn(pc))
    /\ todo' = (IF pc = "main_index" THEN UrlsToFetch(nav_sections) ELSE todo)
    /\ urls_to_fetch' =
          (IF pc = "main_index" THEN UrlsToFetch(nav_sections) ELSE urls_to_fetch)
    /\ nav_sections' = (IF pc = "main_index" THEN <<>> ELSE nav_sections)
    /\ fetches' = (IF pc = "harness_call" THEN fetches ELSE MarkIndexed(fetches, kind))
    /\ ipc' = "idle"
    /\ idx_attempt' = 0
    /\ batch' = batch
    /\ probe' = "none"
    /\ chunk_i' = 0

\* lines 561-576: an empty batch returns at once; else the connectivity probe
\* answers, returns false or raises, and in the last two cases
\* setup_elasticsearch is called
IdxProbe ==
    /\ ipc = "probe"
    /\ IF batch = <<>>
       THEN /\ Resume("returned")
            /\ ret' = [kind |-> "returned_early", success |-> 0, failed |-> 0,
                         attempts |-> idx_attempt]
            /\ UNCHANGED <<es_client, es_index, reconnects>>
       ELSE \E outcome \in {"ok", "false", "raise"} :
               LET es == [client |-> es_client, index |-> es_index, runs |-> reconnects]
                   after == IF outcome = "ok" THEN es ELSE Reconnect(es)
               IN  /\ probe' = outcome
                   /\ es_client' = after.client
                   /\ es_index' = after.index
                   /\ reconnects' = after.runs
                   /\ ipc' = "bulk"
                   /\ chunk_i' = 1
                   /\ UNCHANGED <<pc, todo, urls_to_fetch, nav_sections, fetches,
                                  idx_attempt, batch, ret>>
    /\ UNCHANGED <<faults, calls, open_pages, documents>>
    /\ UNCHANGED setupVars
    /\ UNCHANGED extractVars
    /\ UNCHANGED toolVars

\* line 600: bulk(self.es_client, doc_generator(), chunk_size=50), one chunk
\* per step.  The Index stores the chunk, or the request fails and nothing of
\* the chunk is stored, or it rejects some documents of the chunk and stores
\* the others; the bulk helper raises in the last two cases (lines 608-612).
\* After the last chunk the counts are logged and the call returns.
IdxBulk ==
    /\ ipc = "bulk"
    /\ LET actions == doc_generator(batch)
           n == NumChunks(Len(actions))
           chunk == Chunk(actions, chunk_i)
       IN  IF n = 0
           THEN /\ Resume("returned")
                /\ ret' = [kind |-> "returned", success |-> 0, failed |-> 0,
                           attempts |-> idx_attempt]
                /\ UNCHANGED <<es_index, faults, reconnects>>
           ELSE \/ /\ es_index' = [exists |-> TRUE,
                                   docs |-> EsBulk(es_index.docs, chunk, 1, {})]
                   /\ IF chunk_i = n
                      THEN /\ Resume("returned")
                           /\ ret' = [kind |-> "returned",
                                      success |-> Len(actions), failed |-> 0,
                                      attempts |-> idx_attempt]
                           /\ UNCHANGED reconnects
                      ELSE /\ chunk_i' = chunk_i + 1
                           /\ UNCHANGED <<pc, todo, urls_to_fetch, nav_sections,
                                          fetches, ipc, idx_attempt, batch, probe,
                                          reconnects, ret>>
                   /\ UNCHANGED faults
                \/ /\ faults < MaxFaults
                   /\ \E failing \in (SUBSET (1..Len(chunk))) \ {{}} :
                         es_index' = [es_index EXCEPT
                                        !.docs = EsBulk(@, chunk, 1, failing)]
                   /\ faults' = faults + 1
                   /\ ipc' = "raised"
                   /\ probe' = "none"
                   /\ UNCHANGED <<pc, todo, urls_to_fetch, nav_sections, fetches,
                                  idx_attempt, batch, chunk_i, reconnects, ret>>
    /\ UNCHANGED <<es_client, calls, open_pages, documents>>
    /\ UNCHANGED setupVars
    /\ UNCHANGED extractVars
    /\ UNCHANGED toolVars

\* tenacity after a failed attempt of index_documents: wait and run the body
\* again, or stop after the third attempt with RetryError
IdxRetry ==
    /\ ipc = "raised"
    /\ IF RetryStop(idx_attempt, IndexMaxAttempts)
       THEN /\ Resume("raised")
            /\ ret' = [kind |-> "raised", success |-> 0, failed |-> 0,
                       attempts |-> idx_attempt]
            /\ UNCHANGED reconnects
       ELSE /\ idx_attempt' = idx_attempt + 1
            /\ ipc' = "probe"
            /\ probe' = "none"
            /\ chunk_i' = 0
            /\ UNCHANGED <<pc, todo, urls_to_fetch, nav_sections, fetches, batch,
                           reconnects, ret>>
    /\ UNCHANGED <<es_client, es_index, faults, calls, open_pages, documents>>
    /\ UNCHANGED setupVars
    /\ UNCHANGED extractVars
    /\ UNCHANGED toolVars

(***************************************************************************)
(* The crawl: run, scrape_all_sections, fetch_navigation_linked_pages.     *)
(***************************************************************************)
\* the record of a render that has started.  Line 148,
\* `page = await self.browser.new_page()`, is inside the try: the browser
\* opens a page, or new_page raises and no page exists
NewFetch(url, title, opened) ==
    [url |-> url, title |-> title, state |-> "rendering", docs |-> <<>>,
     indexed |-> "none", page |-> IF opened THEN "open" ELSE "none",
     waited |-> FALSE]

\* lines 177-179: the render raised and None is returned.  page.close() of
\* line 174 is on the path without an exception only, so a page that was
\* opened stays open; the 2 s wait of line 162 was made when the failure came
\* after it (page.content() or page.close() raising)
RenderFailed(fetch, waited) ==
    [fetch EXCEPT !.state = "failed", !.waited = waited /\ fetch.page = "open"]

\* lines 151-175: the render gave html; the wait of line 162 was made and
\* the page was closed at line 174
RenderOk(fetch, docs, indexed) ==
    [fetch EXCEPT !.state = "ok", !.docs = docs, !.indexed = indexed,
                  !.page = "closed", !.waited = TRUE]

\* a crawl that keeps every page's documents for one indexing call at the end
AfterExtractDeferred(docs) == "skip"

\* lines 522 and 649: `if spa_docs:` / `if page_docs:` decides whether the
\* page's documents are indexed now
AfterExtract(docs) == IF docs # <<>> THEN "index" ELSE "skip"

\* a loop that ends at the first linked page that fails to render
OnFetchFailedStops(where) == "done"

\* where the crawl goes on when a render gave no html: scrape_all_sections
\* returns [] for the main page (lines 554-556), the loop of
\* fetch_navigation_linked_pages logs and takes the next page (lines 657-658)
OnFetchFailed(where) ==
    CASE where = "main_fetching" -> "done"
      [] OTHER -> "linked_loop"

\* fetch_page_with_playwright, line 148, for the main page (line 513): the
\* render starts; a browser page is opened unless new_page raises
FetchMainStart ==
    /\ pc = "run"
    /\ pc' = "main_fetching"
    /\ \E opened \in BOOLEAN :
          /\ open_pages' = open_pages + (IF opened THEN 1 ELSE 0)
          /\ fetches' = Append(fetches, NewFetch(BaseUrl, <<>>, opened))
    /\ UNCHANGED <<nav_sections, urls_to_fetch, todo, documents, es_client,
                   es_index, faults, calls>>
    /\ UNCHANGED setupVars
    /\ UNCHANGED indexVars
    /\ UNCHANGED extractVars
    /\ UNCHANGED toolVars

\* fetch_page_with_playwright, lines 151-179, and lines 515-534 after it: the
\* render fails (the page is not closed, None is returned) or gives html (the
\* page is closed); the html is cut into documents, which are indexed at once.
\* extract_sections_from_spa (line 518) is called outside any try: when it
\* raises, the exception leaves scrape_all_sections and run() (lines 681-683)
FetchMainEnd ==
    /\ pc = "main_fetching"
    /\ LET k == Len(fetches)
       IN  \/ /\ \E waited \in BOOLEAN :
                    fetches' = [fetches EXCEPT ![k] = RenderFailed(@, waited)]
              /\ pc' = OnFetchFailed(pc)
              /\ UNCHANGED <<open_pages, nav_sections, urls_to_fetch, todo,
                             documents>>
              /\ UNCHANGED indexVars
           \/ /\ fetches[k].page = "open"
              /\ open_pages' = open_pages - 1
              /\ fetches' = [fetches EXCEPT ![k] = RenderOk(@, <<>>, "none")]
              /\ pc' = "crashed"
              /\ UNCHANGED <<nav_sections, urls_to_fetch, todo, documents>>
              /\ UNCHANGED indexVars
           \/ \E sections \in SectionLists, nav \in NavLists :
                 LET docs == extract_sections_from_spa(sections, BaseUrl, k)
                 IN  /\ fetches[k].page = "open"
                     /\ open_pages' = open_pages - 1
                     /\ documents' = documents \o docs
                     /\ IF AfterExtract(docs) = "index"
                        THEN /\ fetches' = [fetches EXCEPT
                                              ![k] = RenderOk(@, docs, "pending")]
                             /\ pc' = "main_index"
                             /\ IdxEnter(docs)
                             /\ nav_sections' = nav
                             /\ UNCHANGED <<todo, urls_to_fetch>>
                        ELSE /\ fetches' = [fetches EXCEPT
                                              ![k] = RenderOk(@, docs, "none")]
                             /\ pc' = "linked_loop"
                             /\ todo' = UrlsToFetch(nav)
                             /\ urls_to_fetch' = UrlsToFetch(nav)
                             /\ nav_sections' = <<>>
                             /\ UNCHANGED indexVars
    /\ UNCHANGED <<es_client, es_index, faults, calls>>
    /\ UNCHANGED setupVars
    /\ UNCHANGED extractVars
    /\ UNCHANGED toolVars

\* lines 638-641 and 148: the loop takes a (url, title) pair of the set, in
\* the order the set gives them, and starts its render; a browser page is
\* opened unless new_page raises
FetchLinkedStart ==
    /\ pc = "linked_loop"
    /\ \E e \in todo :
          /\ todo' = todo \ {e}
          /\ \E opened \in BOOLEAN :
                /\ open_pages' = open_pages + (IF opened THEN 1 ELSE 0)
                /\ fetches' = Append(fetches, NewFetch(e[1], e[2], opened))
    /\ pc' = "linked_fetching"
    /\ UNCHANGED <<nav_sections, urls_to_fetch, documents, es_client, es_index,
                   faults, calls>>
    /\ UNCHANGED setupVars
    /\ UNCHANGED indexVars
    /\ UNCHANGED extractVars
    /\ UNCHANGED toolVars

\* lines 641-661: the render of a linked page ends; its documents are
\* extracted and indexed at once.  An exception of the extraction (line 645)
\* is caught at line 659 and the loop goes on: the page gives no documents
FetchLinkedEnd ==
    /\ pc = "linked_fetching"
    /\ LET k == Len(fetches)
       IN  \/ /\ \E waited \in BOOLEAN :
                    fetches' = [fetches EXCEPT ![k] = RenderFailed(@, waited)]
              /\ pc' = OnFetchFailed(pc)
              /\ UNCHANGED <<open_pages, documents>>
              /\ UNCHANGED indexVars
           \/ \E sections \in SectionLists :
                 LET docs == extract_sections_from_spa(sections, fetches[k].url, k)
                 IN  /\ fetches[k].page = "open"
                     /\ open_pages' = open_pages - 1
                     /\ documents' = documents \o docs
                     /\ IF AfterExtract(docs) = "index"
                        THEN /\ fetches' = [fetches EXCEPT
                                              ![k] = RenderOk(@, docs, "pending")]
                             /\ pc' = "linked_index"
                             /\ IdxEnter(docs)
                        ELSE /\ fetches' = [fetches EXCEPT
                                              ![k] = RenderOk(@, docs, "none")]
                             /\ pc' = "linked_loop"
                             /\ UNCHANGED indexVars
    /\ UNCHANGED <<nav_sections, urls_to_fetch, todo, es_client, es_index, faults,
                   calls>>
    /\ UNCHANGED setupVars
    /\ UNCHANGED extractVars
    /\ UNCHANGED toolVars

\* lines 663-664, 535-553 and 674-679: the loop is over; scrape_all_sections
\* filters the accumulated documents and returns them, run() logs and returns
CrawlEnd ==
    /\ pc = "linked_loop"
    /\ todo = {}
    /\ documents' = FilterDocs(documents)
    /\ pc' = "done"
    /\ UNCHANGED <<open_pages, fetches, nav_sections, urls_to_fetch, todo,
                   es_client, es_index, faults, calls>>
    /\ UNCHANGED setupVars
    /\ UNCHANGED indexVars
    /\ UNCHANGED extractVars
    /\ UNCHANGED toolVars

\* __aexit__, lines 89-94, run by `async with` (line 693) when run() has
\* returned or raised: the browser is closed, and with it every page that a
\* failed render left open
AExit ==
    /\ pc \in {"done", "crashed"}
    /\ pc' = (IF pc = "done" THEN "exited" ELSE "exited_crashed")
    /\ open_pages' = 0
    /\ UNCHANGED <<fetches, nav_sections, urls_to_fetch, todo, documents,
                   es_client, es_index, faults, calls>>
    /\ UNCHANGED setupVars
    /\ UNCHANGED indexVars
    /\ UNCHANGED extractVars
    /\ UNCHANGED toolVars

Next ==
    \/ AEnter
    \/ SetupConnect
    \/ SetupPing
    \/ SetupRecreateIndex
    \/ SetupRetry
    \/ FetchMainStart
    \/ FetchMainEnd
    \/ FetchLinkedStart
    \/ FetchLinkedEnd
    \/ CrawlEnd
    \/ AExit
    \/ IdxProbe
    \/ IdxBulk
    \/ IdxRetry

\* one run of main(): async with StrandsDocsScraper(...) as scraper: scraper.run()
Spec == Init /\ [][Next]_vars

(***************************************************************************)
(* index_documents called directly on a scraper whose setup has succeeded, *)
(* with batches that the crawl itself does not build.                      *)
(***************************************************************************)
DocIntro == MakeDoc(SecIntro, BaseUrl, 1)
DocUsage == MakeDoc(SecUsage, BaseUrl, 1)
\* a dict without the 'url' key
DocNoUrl == [f \in (DOMAIN DocIntro) \ {"url"} |-> DocIntro[f]]
\* a dict whose 'url' is the empty string
DocEmptyUrl == [DocIntro EXCEPT !.url = <<>>]

Batches == SeqsUpTo({DocIntro, DocUsage, DocNoUrl, DocEmptyUrl}, MaxBatch)

\* the scraper after a successful __aenter__
InitUpsert ==
    /\ pc = "harness"
    /\ spc = "idle"
    /\ setup_attempt = 0
    /\ ping_i = 0
    /\ ping_answered = TRUE
    /\ es_client = "client"
    /\ es_index = RecreatedIndex
    /\ open_pages = 0
    /\ fetches = <<>>
    /\ nav_sections = <<>>
    /\ urls_to_fetch = {}
    /\ todo = {}
    /\ documents = <<>>
    /\ ipc = "idle"
    /\ idx_attempt = 0
    /\ batch = <<>>
    /\ probe = "none"
    /\ chunk_i = 0
    /\ reconnects = 0
    /\ ret = NoRet
    /\ faults = 0
    /\ calls = 0
    /\ ExtractIdle
    /\ ToolIdle

\* scraper.index_documents(b)
UpsertCall ==
    /\ pc = "harness"
    /\ calls < MaxCalls
    /\ \E b \in Batches : IdxEnter(b)
    /\ pc' = "harness_call"
    /\ calls' = calls + 1
    /\ UNCHANGED <<es_client, es_index, faults>>
    /\ UNCHANGED crawlVars
    /\ UNCHANGED setupVars
    /\ UNCHANGED extractVars
    /\ UNCHANGED toolVars

NextUpsert ==
    \/ UpsertCall
    \/ IdxProbe
    \/ IdxBulk
    \/ IdxRetry

SpecUpsert == InitUpsert /\ [][NextUpsert]_vars

(***************************************************************************)
(* The extractors called on one rendered page, and categorize_heading      *)
(* called on one heading, with inputs drawn from bounded sets.             *)
(***************************************************************************)
\* longest run of sibling elements in the content area of a page
MaxElems == 4

\* the elements a content area is made of: headings, a paragraph at the
\* threshold of a document's content with the id "para", a block longer than
\* the cap of the navigation walk with the id "big", an article
H1Guide ==
    [tag |-> Tag.h1,
     text |-> ToText(<<" ", "U", "s", "e", "r", " ", "G", "u", "i", "d", "e", " ">>)]
H2Usage == [tag |-> Tag.h2, text |-> ToText(<<"U", "s", "a", "g", "e">>)]
H4Note == [tag |-> Tag.h4, text |-> ToText(<<"N", "o", "t", "e">>)]
PShort ==
    [tag |-> Tag.p,
     text |-> StrCat(<<Run(" ", 2)>>, StrCat(Text(MinContentLen), <<Run("\n", 1)>>)),
     id |-> <<"p", "a", "r", "a">>]
DivBig ==
    [tag |-> Tag.div, text |-> Text(MaxNavContent + MinContentLen), id |-> <<"b", "i", "g">>]
Article == [tag |-> Tag.article, text |-> Text(MinBlockLen + 1)]
\* an article with a heading and a paragraph inside it
ArticleUsage ==
    [tag |-> Tag.article, text |-> Text(MinBlockLen + 1), inner |-> <<H2Usage, PShort>>]

PageElems == {H1Guide, H2Usage, H4Note, PShort, DivBig, Article, ArticleUsage}

\* the links a navigation is made of: the text, the href and the selectors
\* of extract_navigation_sections that select the link.  "Guide" to #big and
\* to #para, "FAQ" to #missing, "1.2", "2.5" and "Step 1. Usage" to #big,
\* " Usage " to the guide page
PageLinks ==
    { [text |-> TitleGuide, href |-> <<"#", "b", "i", "g">>, within |-> {"nav"}],
      [text |-> TitleGuide, href |-> <<"#", "p", "a", "r", "a">>, within |-> {"nav"}],
      [text |-> <<"F", "A", "Q">>, href |-> <<"#", "m", "i", "s", "s", "i", "n", "g">>, within |-> {"nav"}],
      [text |-> TitleVersion, href |-> <<"#", "b", "i", "g">>, within |-> {"nav"}],
      [text |-> <<"2", ".", "5">>, href |-> <<"#", "b", "i", "g">>, within |-> {"nav"}],
      [text |-> <<"S", "t", "e", "p", " ", "1", ".", " ", "U", "s", "a", "g", "e">>,
       href |-> <<"#", "b", "i", "g">>, within |-> {"nav"}],
      [text |-> <<" ", "U", "s", "a", "g", "e", " ">>, href |-> UrlGuide,
       within |-> {"nav", "sidebar"}] }

\* the navigations a page may carry: no link or one
LinkLists == {<<>>} \cup { <<l>> : l \in PageLinks }

Pages ==
    { [elems |-> elems, nav |-> links] :
        elems \in SeqsUpTo(PageElems, MaxElems), links \in LinkLists }

InitExtract ==
    /\ pc = "harness"
    /\ spc = "idle"
    /\ setup_attempt = 0
    /\ ping_i = 0
    /\ ping_answered = TRUE
    /\ es_client = "client"
    /\ es_index = RecreatedIndex
    /\ open_pages = 0
    /\ fetches = <<>>
    /\ nav_sections = <<>>
    /\ urls_to_fetch = {}
    /\ todo = {}
    /\ documents = <<>>
    /\ ipc = "idle"
    /\ idx_attempt = 0
    /\ batch = <<>>
    /\ probe = "none"
    /\ chunk_i = 0
    /\ reconnects = 0
    /\ ret = NoRet
    /\ faults = 0
    /\ calls = 0
    /\ epc = "ready"
    /\ html \in Pages
    /\ page_sections = <<>>
    /\ page_docs = <<>>
    /\ cat_arg = <<>>
    /\ cat_res = <<>>
    /\ ToolIdle

\* extract_sections_from_spa(html, url) on the page: the documents returned,
\* or the exception of extract_navigation_based_sections passed on
ExtractPage ==
    /\ epc = "ready"
    /\ LET nav == extract_navigation_sections(html.nav)
           found == extract_comprehensive_sections(html.elems, nav)
       IN IF found.raised
          THEN /\ epc' = "raised"
               /\ page_sections' = <<>>
               /\ page_docs' = <<>>
          ELSE /\ epc' = "done"
               /\ page_sections' = found.sections
               /\ page_docs' = extract_sections_from_spa(found.sections, BaseUrl, 1)
    /\ UNCHANGED <<html, cat_arg, cat_res>>
    /\ UNCHANGED <<pc, es_client, es_index, faults, calls>>
    /\ UNCHANGED setupVars
    /\ UNCHANGED crawlVars
    /\ UNCHANGED indexVars
    /\ UNCHANGED toolVars

SpecExtract == InitExtract /\ [][ExtractPage]_vars

\* the heading texts categorize_heading is called with
HeadingTexts ==
    { <<"Q", "u", "i", "c", "k", "s", "t", "a", "r", "t">>,
      <<"T", "o", "o", "l", "s", " ", "f", "o", "r", " ", "A", "g", "e", "n", "t", "s">>,
      <<"A", "P", "I", " ", "R", "e", "f", "e", "r", "e", "n", "c", "e">>,
      <<"M", "o", "d", "e", "l", " ", "P", "r", "o", "v", "i", "d", "e", "r", "s">>,
      <<"N", "e", "x", "t", " ", "S", "t", "e", "p", "s">>,
      <<"G", "e", "t", "t", "i", "n", "g", " ", "S", "t", "a", "r", "t", "e", "d">>,
      <<"O", "v", "e", "r", "v", "i", "e", "w">>,
      <<"D", "e", "p", "l", "o", "y", " ", "E", "x", "a", "m", "p", "l", "e", "s">>,
      <<"M", "u", "l", "t", "i", "-", "A", "g", "e", "n", "t", " ", "S", "a", "f", "e", "t", "y">>,
      <<"K", "e", "y", " ", "F", "e", "a", "t", "u", "r", "e", "s">> }

InitCategorize ==
    /\ pc = "harness"
    /\ spc = "idle"
    /\ setup_attempt = 0
    /\ ping_i = 0
    /\ ping_answered = TRUE
    /\ es_client = "client"
    /\ es_index = RecreatedIndex
    /\ open_pages = 0
    /\ fetches = <<>>
    /\ nav_sections = <<>>
    /\ urls_to_fetch = {}
    /\ todo = {}
    /\ documents = <<>>
    /\ ipc = "idle"
    /\ idx_attempt = 0
    /\ batch = <<>>
    /\ probe = "none"
    /\ chunk_i = 0
    /\ reconnects = 0
    /\ ret = NoRet
    /\ faults = 0
    /\ calls = 0
    /\ epc = "call"
    /\ html = [elems |-> <<>>, nav |-> <<>>]
    /\ page_sections = <<>>
    /\ page_docs = <<>>
    /\ cat_arg \in HeadingTexts \X AllHeadings
    /\ cat_res = <<>>
    /\ ToolIdle

\* categorize_heading(heading_text, heading_level, nav_sections)
Categorize ==
    /\ epc = "call"
    /\ cat_res' = categorize_heading(cat_arg[1], cat_arg[2], <<>>)
    /\ epc' = "returned"
    /\ UNCHANGED <<html, page_sections, page_docs, cat_arg>>
    /\ UNCHANGED <<pc, es_client, es_index, faults, calls>>
    /\ UNCHANGED setupVars
    /\ UNCHANGED crawlVars
    /\ UNCHANGED indexVars
    /\ UNCHANGED toolVars

SpecCategorize == InitCategorize /\ [][Categorize]_vars

(***************************************************************************)
(* The query servers: the stdio server (src/mcp_server/main.py) and the    *)
(* HTTP server (src/mcp_server/fastmcp_server.py).  A result text is given *)
(* by the fixed words its f-string starts with.                            *)
(***************************************************************************)
\* arguments.get(key, ""): the empty string when the key is absent
ArgGet(arguments, key) ==
    IF key \in DOMAIN arguments THEN arguments[key] ELSE <<>>

\* [TextContent(type="text", text=...)]
TextResult(text) == [type |-> "text", text |-> text]

\* what the Index does with a search request: it answers with hits, answers
\* with none, or the request raises
IndexAnswers == {"hits", "no_hits", "error"}

\* es_client.search(index=self.index_name, body=...) with the Index's answer
EsSearch(body, answer) == [op |-> "search", body |-> body, answer |-> answer]

\* StrandsDocsMCPServer.search_documentation
search_documentation(arguments, answer) ==
    LET query == ArgGet(arguments, "query")
    IN IF query = <<>>
       THEN [result |-> TextResult("Error: Query parameter is required"),
             requests |-> <<>>]
       ELSE [result |-> TextResult(CASE answer = "error" -> "Search failed"
                                     [] answer = "no_hits" -> "No results found for query"
                                     [] OTHER -> "Found results for"),
             requests |-> <<EsSearch("multi_match", answer)>>]

\* StrandsDocsMCPServer.get_document_by_url
get_document_by_url(arguments, answer) ==
    LET url == ArgGet(arguments, "url")
    IN IF url = <<>>
       THEN [result |-> TextResult("Error: URL parameter is required"),
             requests |-> <<>>]
       ELSE [result |-> TextResult(CASE answer = "error" -> "Document retrieval failed"
                                     [] answer = "no_hits" -> "No document found for URL"
                                     [] OTHER -> "Document Details"),
             requests |-> <<EsSearch("term", answer)>>]

\* StrandsDocsMCPServer.list_sections_tool
list_sections_tool(answer) ==
    [result |-> TextResult(IF answer = "error" THEN "Failed to list sections"
                           ELSE "Available Documentation Sections"),
     requests |-> <<EsSearch("aggs", answer)>>]

\* handle_call_tool of the stdio server: dispatch on the tool name
handle_call_tool(name, arguments, answer) ==
    CASE name = "search_documentation" -> search_documentation(arguments, answer)
      [] name = "get_document_by_url" -> get_document_by_url(arguments, answer)
      [] name = "list_sections" -> list_sections_tool(answer)
      [] OTHER -> [result |-> TextResult("Unknown tool"), requests |-> <<>>]

\* an exception left the tool function
Raised == [type |-> "raised"]

\* the shape the two tool functions of the HTTP server share.  ctx says
\* whether a Context was given and which of its awaited calls answer: the
\* ctx.info before the try (lines 78-79, 175-176), the ctx.info at the end of
\* the try (lines 155-156, 223-224) and the ctx.error of the except handler
\* (lines 163-164, 231-232).  An exception of the first leaves the function
\* before any request is sent, one of the second is caught like a failure of
\* the Index, one of the third leaves the function from inside the handler.
fastmcp_tool(ctx, request, results, on_error) ==
    IF ctx.given /\ ~ctx.info
    THEN [result |-> Raised, requests |-> <<>>]
    ELSE IF request.answer # "error" /\ (~ctx.given \/ ctx.found)
    THEN [result |-> results, requests |-> <<request>>]
    ELSE IF ~ctx.given \/ ctx.error
    THEN [result |-> on_error, requests |-> <<request>>]
    ELSE [result |-> Raised, requests |-> <<request>>]

\* the tool search_documentation of the HTTP server: the query is sent as it
\* is; the list of results is returned, and [] when the try raised
fastmcp_search_documentation(arguments, ctx, answer) ==
    fastmcp_tool(ctx, EsSearch("multi_match", answer),
                 [type |-> "list",
                  items |-> IF answer = "hits" THEN <<arguments.query>> ELSE <<>>],
                 [type |-> "list", items |-> <<>>])

\* the tool get_documentation_sections of the HTTP server
fastmcp_get_documentation_sections(ctx, answer) ==
    fastmcp_tool(ctx, EsSearch("aggs", answer),
                 [type |-> "dict", total_documents |-> answer],
                 [type |-> "dict", error |-> "Failed to get sections"])

\* a tool call run from its start to its end
RunTool(call, answer) ==
    IF call.server = "stdio"
    THEN handle_call_tool(call.name, call.arguments, answer)
    ELSE IF call.name = "search_documentation"
    THEN fastmcp_search_documentation(call.arguments, call.ctx, answer)
    ELSE fastmcp_get_documentation_sections(call.ctx, answer)

\* the Contexts a tool function of the HTTP server is called with: none, or
\* one of a client that answers or has gone at each of the three calls
Contexts ==
    {NoContext} \cup [given : {TRUE}, info : BOOLEAN, found : BOOLEAN, error : BOOLEAN]

\* the arguments dicts of the calls made to the stdio server
StdioArguments ==
    { NoArguments,
      [query |-> <<>>],
      [query |-> <<"a", "g", "e", "n", "t", "s">>],
      [query |-> <<"a", "g", "e", "n", "t", "s">>, section_filter |-> <<"m", "a", "i", "n">>],
      [url |-> <<>>],
      [url |-> UrlGuide],
      [url |-> UrlApi],
      [query |-> <<"a", "g", "e", "n", "t", "s">>, max_results |-> 5],
      [query |-> <<"a", "g", "e", "n", "t", "s">>, url |-> UrlGuide] }

\* the tool names of the calls made to the stdio server: its three tools and
\* a name it does not know
StdioNames ==
    {"search_documentation", "get_document_by_url", "list_sections",
     "get_documentation_sections"}

\* the calls made to the two servers; the HTTP server's tools are called with
\* a query string, empty or not, and with or without a Context
ToolCalls ==
    { [server |-> "stdio", name |-> n, arguments |-> a, ctx |-> NoContext] :
        n \in StdioNames, a \in StdioArguments }
    \cup { [server |-> "http", name |-> "search_documentation", arguments |-> a,
            ctx |-> c] :
             a \in { [query |-> <<>>], [query |-> <<"a", "g", "e", "n", "t", "s">>],
                     [query |-> <<"a", "g", "e", "n", "t", "s">>, max_results |-> 5] },
             c \in Contexts }
    \cup { [server |-> "http", name |-> "get_documentation_sections",
            arguments |-> NoArguments, ctx |-> c] : c \in Contexts }

\* a query server after its start, the scraper not running
InitTools ==
    /\ pc = "harness"
    /\ spc = "idle"
    /\ setup_attempt = 0
    /\ ping_i = 0
    /\ ping_answered = TRUE
    /\ es_client = "client"
    /\ es_index \in InitialIndexes
    /\ open_pages = 0
    /\ fetches = <<>>
    /\ nav_sections = <<>>
    /\ urls_to_fetch = {}
    /\ todo = {}
    /\ documents = <<>>
    /\ ipc = "idle"
    /\ idx_attempt = 0
    /\ batch = <<>>
    /\ probe = "none"
    /\ chunk_i = 0
    /\ reconnects = 0
    /\ ret = NoRet
    /\ faults = 0
    /\ calls = 0
    /\ ExtractIdle
    /\ ToolIdle

\* a tools/call request reaches a server and a task is made for it
ToolCall(t) ==
    /\ tpc[t] = "idle"
    /\ \E c \in ToolCalls : tool_call' = [tool_call EXCEPT ![t] = c]
    /\ tpc' = [tpc EXCEPT ![t] = "called"]
    /\ UNCHANGED <<tool_result, es_requests, tool_log>>
    /\ UNCHANGED <<pc, es_client, es_index, faults, calls>>
    /\ UNCHANGED setupVars
    /\ UNCHANGED crawlVars
    /\ UNCHANGED indexVars
    /\ UNCHANGED extractVars

\* the event loop starts the task's handler, which runs until it awaits.
\* The handlers of the stdio server and a tool function that has no Context
\* never give the event loop back: the whole call is one step, in which at
\* most one request goes to the Index.  A tool function of the HTTP server
\* with a Context stops at `await ctx.info(...)` (lines 79, 176)
ToolHandle(t) ==
    /\ tpc[t] = "called"
    /\ IF tool_call[t].ctx.given
       THEN /\ tpc' = [tpc EXCEPT ![t] = "await_info"]
            /\ tool_log' = Append(tool_log, [task |-> t, what |-> "ctx.info"])
            /\ UNCHANGED <<tool_result, es_requests>>
       ELSE \E answer \in IndexAnswers :
               LET out == RunTool(tool_call[t], answer)
               IN /\ tool_result' = [tool_result EXCEPT ![t] = out.result]
                  /\ es_requests' = [es_requests EXCEPT ![t] = out.requests]
                  /\ tool_log' = tool_log \o
                        [i \in DOMAIN out.requests |-> [task |-> t, what |-> "es.search"]]
                  /\ tpc' = [tpc EXCEPT ![t] = "returned"]
    /\ UNCHANGED tool_call
    /\ UNCHANGED <<pc, es_client, es_index, faults, calls>>
    /\ UNCHANGED setupVars
    /\ UNCHANGED crawlVars
    /\ UNCHANGED indexVars
    /\ UNCHANGED extractVars

\* the event loop gives the task its awaited call back, answered or raised,
\* and the tool function runs on to its next await or to its end: after the
\* first ctx.info the request goes to the Index (lines 127, 209) and the
\* second ctx.info or, when the request raised, ctx.error is awaited; after
\* the second ctx.info the results are returned or, when it raised, ctx.error
\* is awaited; after ctx.error the value of the except handler is returned
ToolResume(t) ==
    /\ tpc[t] \in {"await_info", "await_found", "await_error"}
    /\ LET call == tool_call[t]
           ctx == call.ctx
           ends(answer) ==
               /\ tool_result' = [tool_result EXCEPT ![t] = RunTool(call, answer).result]
               /\ tpc' = [tpc EXCEPT ![t] = IF RunTool(call, answer).result = Raised
                                            THEN "raised" ELSE "returned"]
       IN  CASE tpc[t] = "await_info" /\ ~ctx.info ->
                  /\ ends("hits")
                  /\ UNCHANGED <<es_requests, tool_log>>
             [] tpc[t] = "await_info" /\ ctx.info ->
                  \E answer \in IndexAnswers :
                     /\ es_requests' = [es_requests EXCEPT
                                          ![t] = RunTool(call, answer).requests]
                     /\ tpc' = [tpc EXCEPT ![t] = IF answer = "error"
                                                  THEN "await_error" ELSE "await_found"]
                     /\ tool_log' = tool_log \o
                           <<[task |-> t, what |-> "es.search"],
                             [task |-> t,
                              what |-> IF answer = "error" THEN "ctx.error"
                                       ELSE "ctx.info"]>>
                     /\ UNCHANGED tool_result
             [] tpc[t] = "await_found" /\ ctx.found ->
                  /\ ends(es_requests[t][1].answer)
                  /\ UNCHANGED <<es_requests, tool_log>>
             [] tpc[t] = "await_found" /\ ~ctx.found ->
                  /\ tpc' = [tpc EXCEPT ![t] = "await_error"]
                  /\ tool_log' = Append(tool_log, [task |-> t, what |-> "ctx.error"])
                  /\ UNCHANGED <<tool_result, es_requests>>
             [] tpc[t] = "await_error" ->
                  /\ ends(es_requests[t][1].answer)
                  /\ UNCHANGED <<es_requests, tool_log>>
    /\ UNCHANGED tool_call
    /\ UNCHANGED <<pc, es_client, es_index, faults, calls>>
    /\ UNCHANGED setupVars
    /\ UNCHANGED crawlVars
    /\ UNCHANGED indexVars
    /\ UNCHANGED extractVars

NextTools ==
    \/ \E t \in Tasks : ToolCall(t)
    \/ \E t \in Tasks : ToolHandle(t)
    \/ \E t \in Tasks : ToolResume(t)

SpecTools == InitTools /\ [][NextTools]_vars

(***************************************************************************)
(* Properties.                                                             *)
(***************************************************************************)
Range(f) == { f[i] : i \in DOMAIN f }

\* the documents of the Index that carry url u
WithUrl(u) == { i \in 1..Len(es_index.docs) : es_index.docs[i].url = u }

\* the renders whose index_documents call has ended, returned or raised
Ended(k) == fetches[k].indexed \in {"returned", "raised"}

\* the linked pages rendered so far, as (url, title) pairs
LinkedFetched == { <<fetches[k].url, fetches[k].title>> : k \in 2..Len(fetches) }

\* C1: when no Index failure occurs and index_documents has returned for two
\* pages that carry a document of the same url, the Index holds exactly one
\* document of that url, and it is the one of the later write.
C1_IdempotentUpsert ==
    (faults = 0 /\ ipc = "idle") =>
        \A j \in 1..Len(fetches), k \in 1..Len(fetches) :
            \A a \in 1..Len(fetches[j].docs), b \in 1..Len(fetches[k].docs) :
                ( /\ j < k
                  /\ fetches[j].indexed = "returned"
                  /\ fetches[k].indexed = "returned"
                  /\ fetches[j].docs[a].url = fetches[k].docs[b].url
                  /\ \A m \in (k + 1)..Len(fetches) :
                        \A c \in 1..Len(fetches[m].docs) :
                            fetches[m].docs[c].url # fetches[k].docs[b].url )
                => /\ Cardinality(WithUrl(fetches[k].docs[b].url)) = 1
                   /\ \A i \in WithUrl(fetches[k].docs[b].url) :
                         es_index.docs[i] = fetches[k].docs[b]

\* the documents of a batch that have the 'url' key, and those that lack it
NumWithUrl(b) == Cardinality({ i \in 1..Len(b) : "url" \in DOMAIN b[i] })
NumMissingUrl(b) == Cardinality({ i \in 1..Len(b) : "url" \notin DOMAIN b[i] })

\* C2: a call of index_documents on a batch of n documents with a url and m
\* documents without one, which the Index accepts, ends with success count n
\* and a failure list of m entries, and the n documents are in the Index.
C2_PartialFailureIsolation ==
    ( /\ pc = "harness"
      /\ ret.kind = "returned"
      /\ ret.attempts = 1
      /\ DocEmptyUrl \notin Range(batch) )
    => /\ ret.success = NumWithUrl(batch)
       /\ ret.failed = NumMissingUrl(batch)
       /\ \A i \in 1..Len(batch) :
             "url" \in DOMAIN batch[i] => batch[i] \in Range(es_index.docs)

\* run() has returned (lines 674-679), before or after __aexit__
Returned == pc \in {"done", "exited"}

\* an exception has left scrape_all_sections and run() (lines 681-683)
Crashed == pc \in {"crashed", "exited_crashed"}

\* C3: an index_documents call that raises never aborts the crawl: a crawl
\* that an error has left had no index_documents call that raised, the loop
\* goes through every linked page, and every page that gave documents has
\* had them submitted before the crawl goes on.
C3_IndexFailureDoesNotAbortCrawl ==
    /\ Crashed => \A k \in 1..Len(fetches) : fetches[k].indexed # "raised"
    /\ pc \in {"linked_loop", "linked_fetching", "linked_index", "done", "exited"}
          => (Len(fetches) >= 1 /\ fetches[1].state = "failed")
             \/ urls_to_fetch = todo \cup LinkedFetched
    /\ Returned => todo = {}
    /\ \A k \in 1..Len(fetches) :
          (fetches[k].docs # <<>> /\ (k < Len(fetches) \/ Returned))
              => Ended(k)

\* C3 witness: the crawl has ended, the indexing of one page raised after its
\* retries, and a later page was rendered and indexed
C3_Witness ==
    /\ pc = "done"
    /\ \E j \in 1..Len(fetches), k \in 1..Len(fetches) :
          /\ j < k
          /\ fetches[j].indexed = "raised"
          /\ fetches[k].indexed = "returned"

\* C4: a document written to the Index during the run is still in the Index
\* after every step of the run.
C4_WrittenDocumentsStay ==
    [][ \A i \in 1..Len(es_index.docs) :
            es_index.docs[i].scraped_at >= 1
                => \E j \in 1..Len(es_index'.docs) :
                       es_index'.docs[j] = es_index.docs[i] ]_vars

\* C4 witness: the first page's documents are in the Index, the indexing of a
\* later page has failed an attempt, and its probe has just failed
C4_Witness ==
    /\ Len(fetches) >= 2
    /\ fetches[1].indexed = "returned"
    /\ \A i \in 1..Len(fetches[1].docs) : fetches[1].docs[i] \in Range(es_index.docs)
    /\ ipc = "bulk"
    /\ idx_attempt >= 2
    /\ probe \in {"false", "raise"}

\* the documents of render k that the Index holds
Present(k) ==
    { i \in 1..Len(fetches[k].docs) : fetches[k].docs[i] \in Range(es_index.docs) }

\* C5: whenever no index_documents call is running, each page is fully
\* indexed or not at all: the Index holds none or all of its documents.
C5_PageAllOrNothing ==
    ipc = "idle" =>
        \A k \in 1..Len(fetches) :
            Present(k) = {} \/ Present(k) = 1..Len(fetches[k].docs)

\* C6: when the bulk submission of an attempt is about to be made and the
\* connectivity probe of that attempt returned false or raised,
\* setup_elasticsearch has run since the call began.
C6_ReconnectBeforeBulk ==
    (ipc = "bulk" /\ probe \in {"false", "raise"}) => reconnects > 0

\* C7: a call of setup_elasticsearch or of index_documents starts at most 3
\* attempts, a new attempt starts only after the one before it has raised,
\* and a call ends with an error only after its third attempt.
C7_AtMostThreeAttempts ==
    [][ /\ setup_attempt' <= 3
        /\ idx_attempt' <= 3
        /\ ret'.attempts <= 3
        /\ pc' = "startup_failed" => setup_attempt' = 3
        /\ ret'.kind = "raised" => ret'.attempts = 3
        /\ (setup_attempt' > setup_attempt /\ setup_attempt >= 1) => spc = "raised"
        /\ (idx_attempt' > idx_attempt /\ idx_attempt >= 1) => ipc = "raised"
        /\ (spc = "recreate" /\ spc' = "idle") => pc' = "run"
        /\ (ipc = "bulk" /\ ipc' = "idle") => ret'.kind = "returned" ]_vars

\* C7 witness: an index_documents call has ended with an error after 3 attempts
C7_Witness ==
    /\ ret.kind = "raised"
    /\ ret.attempts = 3
    /\ faults = 3

\* C8: as long as no readiness probe of the startup has been answered, no
\* page has been rendered and nothing has been written to the Index, and
\* when the startup is over it has failed.
C8_UnreachableIndexFailsStartup ==
    ~ping_answered =>
        /\ pc \in {"start", "setup", "startup_failed"}
        /\ fetches = <<>>
        /\ open_pages = 0
        /\ documents = <<>>
        /\ \A i \in 1..Len(es_index.docs) : es_index.docs[i].scraped_at = 0

\* C8 witness: the startup has failed and no probe was ever answered
C8_Witness ==
    /\ pc = "startup_failed"
    /\ ~ping_answered
    /\ ping_i = PingTries

\* C9: a page whose render failed gives no document, none of its documents
\* is submitted or indexed, a crawl that an error has left had no failed
\* render, and the loop still goes through every other linked page.
C9_FailedRenderSkipsPage ==
    /\ Crashed => \A k \in 1..Len(fetches) : fetches[k].state # "failed"
    /\ \A k \in 1..Len(fetches) :
          fetches[k].state = "failed" =>
              /\ fetches[k].docs = <<>>
              /\ fetches[k].indexed = "none"
              /\ \A i \in 1..Len(es_index.docs) : es_index.docs[i].scraped_at # k
              /\ \A i \in 1..Len(documents) : documents[i].scraped_at # k
    /\ (Returned /\ Len(fetches) >= 1 /\ fetches[1].state = "ok")
          => urls_to_fetch = LinkedFetched

\* C9 witness: the crawl has ended, the render of one linked page failed and
\* a later page was rendered and indexed
C9_Witness ==
    /\ pc = "done"
    /\ \E j \in 2..Len(fetches), k \in 2..Len(fetches) :
          /\ j < k
          /\ fetches[j].state = "failed"
          /\ fetches[k].state = "ok"
          /\ fetches[k].indexed = "returned"

\* C10: while a page is being rendered no index_documents call is running and
\* every earlier page is done with: its render has ended and, if it gave
\* documents, its index_documents call has returned or raised; an
\* index_documents call runs only for the page rendered last.
C10_OnePageAtATime ==
    /\ pc \in {"main_fetching", "linked_fetching"} => ipc = "idle"
    /\ ipc # "idle" => pc \in {"main_index", "linked_index"}
    /\ \A k \in 1..Len(fetches) :
          /\ fetches[k].state = "rendering"
                => (k = Len(fetches) /\ pc \in {"main_fetching", "linked_fetching"})
          /\ fetches[k].indexed = "pending"
                => (k = Len(fetches) /\ pc \in {"main_index", "linked_index"})
          /\ (k < Len(fetches) /\ fetches[k].docs # <<>>) => Ended(k)

\* C10 witness: a linked page is being rendered after the indexing of the
\* page before it failed for good
C10_Witness ==
    /\ pc = "linked_fetching"
    /\ Len(fetches) >= 2
    /\ fetches[Len(fetches) - 1].indexed = "raised"

(***************************************************************************)
(* Properties of the extractors.                                           *)
(***************************************************************************)
\* the stripped length of a content
StrippedLen(content) == StrLen(StrStrip(content))

\* C11: every document extract_sections_from_spa returns for a page has a
\* content whose stripped length is greater than 100: no section whose
\* stripped content has 100 characters or fewer becomes a document.
C11_ContentFloor ==
    epc = "done" =>
        /\ \A i \in DOMAIN page_docs :
              StrippedLen(page_docs[i].content) > MinContentLen
        /\ \A i \in DOMAIN page_sections :
              StrippedLen(page_sections[i].content) <= MinContentLen =>
                  \A j \in DOMAIN page_docs :
                      page_docs[j].content # page_sections[i].content

\* a page with a section of exactly 100 characters, which gives no document,
\* and a longer one, which does
C11_Witness ==
    /\ epc = "done"
    /\ page_docs # <<>>
    /\ \E i \in DOMAIN page_sections :
          StrippedLen(page_sections[i].content) = MinContentLen

\* C12: no two documents extract_sections_from_spa returns for a page have
\* contents with the same first 100 characters: of candidates that share the
\* prefix, whether heading-based, additional blocks or navigation-based, only
\* the first is retained.
C12_NoSharedPrefix ==
    epc = "done" =>
        \A i, j \in DOMAIN page_docs :
            i < j =>
                StrPrefix(page_docs[i].content, PrefixLen)
                    # StrPrefix(page_docs[j].content, PrefixLen)

\* C13: the url of a document, the page URL followed by "#" and the anchor id
\* of its section, is unique: no two documents returned for a page have the
\* same url, two headings with the same text and no id included.
C13_UrlsUnique ==
    epc = "done" =>
        \A i, j \in DOMAIN page_docs :
            i < j => page_docs[i].url # page_docs[j].url

\* the level of the h1-h3 element at position i
LevelAt(soup, i) == DigitValue(soup[i].tag[2])

\* the position of the next sibling heading of level <= that of the heading
\* at position i, the position after the last element when there is none
BoundaryOf(soup, i) ==
    LET stops == { k \in (i + 1)..Len(soup) :
                     /\ soup[k].tag \in MajorHeadings
                     /\ LevelAt(soup, k) <= LevelAt(soup, i) }
    IN IF stops = {} THEN Len(soup) + 1
       ELSE CHOOSE k \in stops : \A m \in stops : k <= m

\* the content the claim gives the section of the heading at position i: the
\* texts of the content siblings between the heading and its boundary
ContentUpToBoundary(soup, i) ==
    LET between == SubSeq(soup, i + 1, BoundaryOf(soup, i) - 1)
        kept == SelectSeq(between,
                    LAMBDA e : e.tag \in ContentTags /\ ElemText(e) # <<>>)
    IN StrJoin(<<Run(" ", 1)>>, [k \in DOMAIN kept |-> ElemText(kept[k])])

\* the nodes of the headings that head a section, in document order
SectionHeadings(soup) ==
    SelectSeq(Nodes(soup),
        LAMBDA n : /\ Elem(n).tag \in MajorHeadings
                   /\ Len(HeadingText(Elem(n))) >= MinHeadingLen
                   /\ StrLen(ContentUpToBoundary(n.sibs, n.at)) > MinHeadingContent)

\* the heading-based sections among the sections returned for the page
HeadingBased ==
    SelectSeq(page_sections,
        LAMBDA s : s.section \notin
                       { <<"a", "d", "d", "i", "t", "i", "o", "n", "a", "l">>,
                         <<"n", "a", "v", "i", "g", "a", "t", "i", "o", "n", "-", "b", "a", "s", "e", "d">> })

\* C14: the section of a heading of level 1 to 3 holds exactly the content
\* siblings that follow the heading up to, and not including, the next
\* sibling heading of the same or a higher level: nothing after that heading
\* is part of it, and headings of a lower level do not end it.
C14_LevelBoundary ==
    epc = "done" =>
        LET at == SectionHeadings(html.elems)
        IN /\ Len(HeadingBased) = Len(at)
           /\ \A k \in DOMAIN at :
                 /\ HeadingBased[k].title = HeadingText(Elem(at[k]))
                 /\ HeadingBased[k].content = ContentUpToBoundary(at[k].sibs, at[k].at)

\* a page on which a section ends at a heading of its own level and content
\* follows that heading
C14_Witness ==
    /\ epc = "done"
    /\ \E k \in DOMAIN SectionHeadings(html.elems) :
          LET n == SectionHeadings(html.elems)[k]
              b == BoundaryOf(n.sibs, n.at)
          IN /\ b < Len(n.sibs)
             /\ LevelAt(n.sibs, b) = LevelAt(n.sibs, n.at)
             /\ \E j \in (b + 1)..Len(n.sibs) :
                   /\ n.sibs[j].tag \in ContentTags
                   /\ ElemText(n.sibs[j]) # HeadingBased[k].content

\* the navigation-based sections among the sections returned for the page
NavBased ==
    SelectSeq(page_sections,
        LAMBDA s : s.section = <<"n", "a", "v", "i", "g", "a", "t", "i", "o", "n", "-", "b", "a", "s", "e", "d">>)

\* the entry's href is a same-page anchor whose id no element has, and its
\* title matches the text of no heading
Misses(soup, entry) ==
    /\ entry.href # <<>> /\ entry.href[1] = "#"
    /\ \A j \in DOMAIN Nodes(soup) :
          LET e == Elem(Nodes(soup)[j])
          IN /\ "id" \in DOMAIN e => e.id # Tail(entry.href)
             /\ e.tag \in AllHeadings =>
                   /\ ~Contains(Lower(HeadingText(e)), Lower(entry.title))
                   /\ ~Contains(Lower(entry.title), Lower(HeadingText(e)))

\* C15: a navigation entry whose href names an id no element has and whose
\* title matches no heading yields no section: the extraction of the page
\* ends without an exception and without a section made up for the entry.
C15_NavMissYieldsNothing ==
    LET nav == extract_navigation_sections(html.nav)
    IN (epc # "ready" /\ \A i \in DOMAIN nav : Misses(html.elems, nav[i])) =>
           /\ epc = "done"
           /\ NavBased = <<>>

\* a page with headings and content enough for a section, extracted with an
\* entry that misses
C15_Witness ==
    /\ epc = "done"
    /\ extract_navigation_sections(html.nav) # <<>>
    /\ \A i \in DOMAIN extract_navigation_sections(html.nav) :
          Misses(html.elems, extract_navigation_sections(html.nav)[i])
    /\ \E j \in DOMAIN html.elems : html.elems[j].tag \in AllHeadings
    /\ \E j \in DOMAIN html.elems : StrLen(ElemText(html.elems[j])) > MinNavContent

\* the title contains a version-like token: a digit, a dot, a digit
HasVersionToken(title) ==
    \E i \in 1..(Len(title) - 2) :
        IsDigit(title[i]) /\ title[i + 1] = "." /\ IsDigit(title[i + 2])

\* C16: a navigation entry whose title contains a version-like token (digits,
\* a dot, digits), such as "1.2", gives no navigation-based section, and an
\* entry whose title has no such token is not excluded by the version rule.
C16_VersionTitlesExcluded ==
    epc = "done" =>
        LET nav == extract_navigation_sections(html.nav)
        IN \A i \in DOMAIN nav :
              /\ HasVersionToken(nav[i].title) =>
                    \A k \in DOMAIN NavBased : NavBased[k].title # nav[i].title
              /\ ~HasVersionToken(nav[i].title) => ~IsVersionTitle(nav[i].title)

\* C17: the anchor id of a heading that has no id attribute is a function of
\* its text alone, the text in lower case with hyphens for spaces: two such
\* headings with the same text get the same anchor id, and their documents
\* the same url.
C17_AnchorFromTextOnly ==
    epc = "done" =>
        LET at == SectionHeadings(html.elems)
            NoId(k) == "id" \notin DOMAIN Elem(at[k])
            TextOf(k) == HeadingText(Elem(at[k]))
        IN /\ \A k \in DOMAIN at :
                 NoId(k) =>
                     /\ Len(HeadingBased[k].id) = Len(TextOf(k))
                     /\ \A c \in DOMAIN TextOf(k) :
                           HeadingBased[k].id[c] =
                               IF TextOf(k)[c] = " " THEN "-"
                               ELSE LowerChar(TextOf(k)[c])
           /\ \A k, m \in DOMAIN at :
                 (NoId(k) /\ NoId(m) /\ TextOf(k) = TextOf(m)) =>
                     /\ HeadingBased[k].id = HeadingBased[m].id
                     /\ MakeDoc(HeadingBased[k], BaseUrl, 1).url
                            = MakeDoc(HeadingBased[m], BaseUrl, 1).url

\* a page with two headings of the same text and no id, each heading a
\* section, and a heading whose text has a space and capitals
C17_Witness ==
    /\ epc = "done"
    /\ \E k, m \in DOMAIN SectionHeadings(html.elems) :
          /\ k < m
          /\ "id" \notin DOMAIN Elem(SectionHeadings(html.elems)[k])
          /\ HeadingBased[k].title = HeadingBased[m].title
    /\ \E k \in DOMAIN HeadingBased :
          \E c \in DOMAIN HeadingBased[k].title : HeadingBased[k].title[c] = " "

\* the element the claim resolves an entry to: the first element carrying
\* the id the href names when the href is a same-page anchor and there is
\* one, otherwise the first heading whose text contains the title or is
\* contained in it, case ignored; NoNode when there is neither
AnchorPoint(soup, entry) ==
    LET nodes == Nodes(soup)
        with_id == { j \in DOMAIN nodes :
                       /\ entry.href # <<>> /\ entry.href[1] = "#"
                       /\ "id" \in DOMAIN Elem(nodes[j])
                       /\ Elem(nodes[j]).id = Tail(entry.href) }
        by_text == { j \in DOMAIN nodes :
                       /\ Elem(nodes[j]).tag \in AllHeadings
                       /\ \/ Contains(Lower(HeadingText(Elem(nodes[j]))), Lower(entry.title))
                          \/ Contains(Lower(entry.title), Lower(HeadingText(Elem(nodes[j])))) }
    IN IF with_id # {} THEN nodes[CHOOSE j \in with_id : \A m \in with_id : j <= m]
       ELSE IF by_text # {} THEN nodes[CHOOSE j \in by_text : \A m \in by_text : j <= m]
       ELSE NoNode

\* the content collected from an anchor point on
ContentFrom(start) ==
    StrJoin(<<Run(" ", 1)>>,
            NavWalk(start.sibs, start.at, start.at, NoWalk).content_parts)

\* C18: the anchor point of a navigation entry that is not excluded is the
\* element with the id its href names, when the href is a same-page anchor
\* and such an element exists, and otherwise the first heading in document
\* order that matches the title; a heading that matches the title is not
\* used when the id lookup succeeds.  Every navigation-based section holds
\* the content collected from the anchor point of its entry, and an entry
\* with an anchor point and enough content from it has its section.
C18_AnchorPriority ==
    epc = "done" =>
        LET nav == extract_navigation_sections(html.nav)
            soup == html.elems
        IN /\ \A k \in DOMAIN NavBased :
                 \E i \in DOMAIN nav :
                     /\ nav[i].title = NavBased[k].title
                     /\ AnchorPoint(soup, nav[i]) # NoNode
                     /\ NavBased[k].content = ContentFrom(AnchorPoint(soup, nav[i]))
           /\ \A i \in DOMAIN nav :
                 (/\ ~IsVersionTitle(nav[i].title)
                  /\ AnchorPoint(soup, nav[i]) # NoNode
                  /\ StrLen(ContentFrom(AnchorPoint(soup, nav[i]))) > MinNavContent) =>
                     \E k \in DOMAIN NavBased :
                         /\ NavBased[k].title = nav[i].title
                         /\ NavBased[k].content = ContentFrom(AnchorPoint(soup, nav[i]))

\* a section made for an entry whose href names the id of one element while
\* its title matches an earlier heading, from which other content would have
\* been collected
C18_Witness ==
    /\ epc = "done"
    /\ NavBased # <<>>
    /\ \E i \in DOMAIN extract_navigation_sections(html.nav) :
          LET entry == extract_navigation_sections(html.nav)[i]
              nodes == Nodes(html.elems)
              by_id == FindById(nodes, Tail(entry.href), 1)
              by_text == FindByText(nodes, entry.title, 1)
          IN /\ entry.href[1] = "#"
             /\ by_id # NoNode
             /\ by_text # NoNode
             /\ \E a, b \in DOMAIN nodes :
                   a < b /\ nodes[a] = by_text /\ nodes[b] = by_id
             /\ ContentFrom(by_text) # ContentFrom(by_id)

\* C19: the content accumulated for a navigation-based section never has more
\* than 5000 characters, even when the walk meets no heading that ends it.
C19_NavContentCapped ==
    epc = "done" =>
        \A k \in DOMAIN NavBased : StrLen(NavBased[k].content) <= MaxNavContent

(***************************************************************************)
(* Properties of categorize_heading.                                       *)
(***************************************************************************)
\* the entries of the keyword table whose keyword is in the heading text,
\* case ignored
MatchingEntries(heading_text) ==
    { k \in DOMAIN section_mappings :
        Contains(Lower(heading_text), section_mappings[k].pattern) }

\* C20: categorize_heading returns the (section, subsection) of the first
\* entry of the keyword table whose keyword is in the heading text, case
\* ignored; when no keyword is, the overview bucket for an h1, the heading's
\* own text as a slug for an h2, the catch-all bucket for an h3 and deeper.
C20_FirstKeywordWins ==
    epc = "returned" =>
        LET heading_text == cat_arg[1]
            level == cat_arg[2]
            hits == MatchingEntries(heading_text)
            first == CHOOSE k \in hits : \A m \in hits : k <= m
        IN IF hits # {}
           THEN cat_res = <<section_mappings[first].section,
                            section_mappings[first].subsection>>
           ELSE IF level = <<"h", "1">>
           THEN cat_res = << <<"m", "a", "i", "n">>,
                             <<"o", "v", "e", "r", "v", "i", "e", "w">> >>
           ELSE IF level = <<"h", "2">>
           THEN /\ cat_res[1] = <<"u", "s", "e", "r", "-", "g", "u", "i", "d", "e">>
                /\ Len(cat_res[2]) = Len(heading_text)
                /\ \A c \in DOMAIN heading_text :
                      cat_res[2][c] = IF heading_text[c] = " " THEN "-"
                                      ELSE LowerChar(heading_text[c])
           ELSE cat_res = << <<"u", "s", "e", "r", "-", "g", "u", "i", "d", "e">>,
                             <<"c", "o", "n", "c", "e", "p", "t", "s">> >>

\* a heading text with two keywords, the one later in the text earlier in
\* the table
C20_Witness ==
    /\ epc = "returned"
    /\ \E k, m \in MatchingEntries(cat_arg[1]) :
          /\ k < m
          /\ cat_res = <<section_mappings[k].section, section_mappings[k].subsection>>
          /\ cat_res # <<section_mappings[m].section, section_mappings[m].subsection>>

\* C21: every h4-h6 element inside the window of a heading-based section,
\* after its heading and before the next heading of the same or a higher
\* level, has its text in the headers of that section, and heads no section
\* of its own.
C21_SubHeadingsFolded ==
    epc = "done" =>
        LET at == SectionHeadings(html.elems)
        IN /\ \A k \in DOMAIN at :
                 \A j \in (at[k].at + 1)..(BoundaryOf(at[k].sibs, at[k].at) - 1) :
                     at[k].sibs[j].tag \in MinorHeadings =>
                         \E h \in DOMAIN HeadingBased[k].headers :
                             HeadingBased[k].headers[h] = HeadingText(at[k].sibs[j])
           /\ \A k \in DOMAIN HeadingBased :
                 \A j \in DOMAIN Nodes(html.elems) :
                     Elem(Nodes(html.elems)[j]).tag \in MinorHeadings =>
                         HeadingBased[k].title # HeadingText(Elem(Nodes(html.elems)[j]))

(***************************************************************************)
(* Further properties of the crawl and of index_documents.                 *)
(***************************************************************************)
\* C22: no document whose url is missing or empty is submitted to the Index:
\* every document the Index holds after index_documents calls has a url,
\* and the url is not the empty string.
C22_NoUrlNeverSubmitted ==
    \A i \in DOMAIN es_index.docs :
        /\ "url" \in DOMAIN es_index.docs[i]
        /\ es_index.docs[i].url # <<>>

\* the crawl is past a successful setup_elasticsearch
SetupDone == pc \notin {"start", "setup", "startup_failed"}

\* C23: once setup_elasticsearch has succeeded at the start of a run the index
\* exists and holds no document of an earlier run: every document of the
\* Index was extracted from a page rendered in this run, also when the run
\* has ended.
C23_RunReplacesIndex ==
    SetupDone =>
        /\ es_index.exists
        /\ \A i \in DOMAIN es_index.docs :
              /\ es_index.docs[i].scraped_at # OldDoc.scraped_at
              /\ \E k \in DOMAIN fetches :
                    es_index.docs[i] \in Range(fetches[k].docs)

\* a run has ended with documents of two of its pages in the Index
C23_Witness ==
    /\ pc = "done"
    /\ \E i, j \in DOMAIN es_index.docs :
          es_index.docs[i].scraped_at # es_index.docs[j].scraped_at
    /\ C23_RunReplacesIndex

\* line 162: the only wait of a crawl is the 2 s wait_for_timeout inside a
\* render, after the navigation of line 151 and before the html is read; a
\* render that gave html has passed it, a render that failed before line 162
\* has not, and the loop of lines 638-661 has no wait of its own
Delayed(fetch) == fetch.waited

\* C24: between two consecutive page fetches of a crawl the delay has
\* elapsed: a render never starts right after a fetch that made no wait.
C24_DelayBetweenFetches ==
    \A k \in 2..Len(fetches) : Delayed(fetches[k - 1])

\* how many times document d occurs in the sequence s
Copies(s, d) == Cardinality({ i \in DOMAIN s : s[i] = d })

\* C25: after index_documents has returned or given up, retries included,
\* every document of the batch that has a non-empty url is in the Index at most as
\* often as the batch holds it: no document written by a failed attempt is
\* written again by a later attempt.
C25_RetryWritesOnce ==
    (pc = "harness" /\ ret # NoRet) =>
        \A i \in DOMAIN batch :
            ("url" \in DOMAIN batch[i] /\ batch[i].url # <<>>) =>
                Copies(es_index.docs, batch[i]) <= Copies(batch, batch[i])

(* Further properties of the extractors. *)
\* C26: extract_navigation_based_sections never raises: whatever element the
\* anchor of a navigation entry resolves to, the extraction of the page ends
\* with a list of sections.
C26_NavExtractionNeverRaises ==
    epc # "raised"

(* Further properties of the crawl. *)
\* C27: during one crawl run each page url is rendered at most once: no two
\* renders of the run, the render of the base url included, have the same url.
C27_EachUrlRenderedOnce ==
    \A j, k \in DOMAIN fetches : j # k => fetches[j].url # fetches[k].url

\* C28: when run() has completed normally, every document of the list
\* scrape_all_sections returned is in the Index: no document is reported as
\* scraped and indexed while its index_documents call failed.
C28_ReturnedDocsIndexed ==
    pc = "done" =>
        \A i \in DOMAIN documents : documents[i] \in Range(es_index.docs)

\* C29: every browser page opened by fetch_page_with_playwright is closed
\* before the call returns, on the failure path as on the success path:
\* whenever no render is in progress, no page is open.
C29_PagesClosedOnReturn ==
    pc \notin {"main_fetching", "linked_fetching"} => open_pages = 0

(* Properties of the query servers. *)
\* the tool call of task t asked for a tool the server does not have
UnknownTool(t) ==
    /\ tool_call[t].server = "stdio"
    /\ tool_call[t].name \notin {"search_documentation", "get_document_by_url",
                                 "list_sections"}

\* the tool call of task t has no value, or the empty string, for the tool's
\* required argument
RequiredArgumentEmpty(t) ==
    \/ /\ tool_call[t].name = "search_documentation"
       /\ ArgGet(tool_call[t].arguments, "query") = <<>>
    \/ /\ tool_call[t].name = "get_document_by_url"
       /\ ArgGet(tool_call[t].arguments, "url") = <<>>

\* a request of the tool call of task t failed in the Index
IndexFailed(t) ==
    \E i \in DOMAIN es_requests[t] : es_requests[t][i].answer = "error"

\* the result of task t is an error value: a text that names an error, or a
\* dict with the key "error"
ErrorResult(t) ==
    \/ /\ tool_result[t].type = "text"
       /\ tool_result[t].text \in
            {"Unknown tool", "Error: Query parameter is required",
             "Error: URL parameter is required", "Search failed",
             "Document retrieval failed", "Failed to list sections"}
    \/ /\ tool_result[t].type = "dict"
       /\ "error" \in DOMAIN tool_result[t]

\* C30: no exception leaves a tool call of the query server and a call that
\* has ended has a result value; an unknown tool name, a missing or empty
\* required argument and a failure of the Index each give an error result,
\* and a call with an empty query or an unknown tool name sends no request to
\* the Index.
C30_ToolCallsNeverRaise ==
    \A t \in Tasks :
        /\ tpc[t] # "raised"
        /\ tpc[t] = "returned" =>
              /\ tool_result[t] # NoResult
              /\ (UnknownTool(t) \/ RequiredArgumentEmpty(t) \/ IndexFailed(t))
                    => ErrorResult(t)
              /\ (UnknownTool(t) \/ RequiredArgumentEmpty(t)) => es_requests[t] = <<>>

====
